---- MODULE Spec2Model ----
(***************************************************************************)
(* State-machine model of the terrain core of genesis-device:              *)
(*   - generateContinuousTileGrid (tile extraction, atlas packing, rects)  *)
(*   - the WaterSystem functions (flow accumulation, river / beach masks)  *)
(*   - applyGeologicalErosion (wind, thermal, hydraulic passes)            *)
(*   - the entry points and generateTerrain (stages, sizes, parameters)    *)
(*   - WasmTerrainGenerator.initialize under concurrent callers            *)
(* Float values are modelled as fixed-point integers: the real number v is *)
(* the integer v * Q.  Products and quotients round down to a multiple of  *)
(* 1/Q, the way the Float32 / Float64 results round to a representable     *)
(* value.                                                                  *)
(***************************************************************************)
EXTENDS Integers, Sequences, FiniteSets, TLC

VARIABLES
  \* --- generateContinuousTileGrid
  cfg,          \* TileGridConfig: rows, cols, tileSize, overlap, seed
  continuous,   \* the resampled continuous heightfield (row-major data)
  tiles,        \* the tiles pushed so far
  atlas,        \* Float32Array(atlasW * atlasH)
  atlasWrites,  \* how many times each atlas cell was assigned
  rects,        \* the UV rectangles pushed so far
  tileIdx,      \* the atlas loop's tileIdx
  gpc,          \* position in generateContinuousTileGrid
  \* --- applyGeologicalErosion
  params,       \* ErosionParams
  hfData,       \* heightField.data, eroded in place
  initialData,  \* heightField.data at the call
  iterations,   \* windIterations, thermalIterations, hydraulicIterations
  waterFeatures,\* the waterFeatures object the function holds
  passMask,     \* the running pass's erosionMask
  passDeposition, \* the running pass's depositionMask
  totalErosionMask,
  totalDepositionMask,
  iter,         \* the running pass's loop counter i
  done,         \* iterations executed per pass
  passLog,      \* the passes entered, in order
  epc,          \* position in applyGeologicalErosion
  \* --- the WaterSystem functions called on their own
  hIn,          \* the arguments
  hOut,         \* the array returned
  hpc,          \* which function has returned
  \* --- the generate entry points and generateTerrain, sizes and parameters
  gcfg,         \* the caller's config; an optional field is {} or {value}
  entryPoint,   \* "continuous" (generateContinuousTileGrid) or "legacy"
  opts,         \* the PipelineOptions handed to generateTerrain
  hSize,        \* the size of generateTerrain's heightfield h
  levelLog,     \* per pyramid level: its size and the FBM amplitude divisor
  stageLog,     \* the stages run so far, in order
  erosionRun,   \* the ErosionParams built and the iteration budgets
  genResult,    \* what the entry point has produced so far
  thrown,       \* the error thrown, "none" if none
  blendWeights, \* seam blend: the weights wA, wB of each k, as quotients
  ppc,          \* position in the entry point
  initialized,  \* WasmTerrainGenerator.initialized
  initCalls,    \* how many times the WASM init() has been invoked
  initResults,  \* the outcomes of the init() promises, in order of settling
  caller        \* per caller: the method called, its position, its error

gridVars == <<cfg, continuous, tiles, atlas, atlasWrites, rects, tileIdx, gpc>>
eroVars == <<params, hfData, initialData, iterations, waterFeatures, passMask, passDeposition,
             totalErosionMask, totalDepositionMask, iter, done, passLog, epc>>
hydroVars == <<hIn, hOut, hpc>>
pipeVars == <<gcfg, entryPoint, opts, hSize, levelLog, stageLog, erosionRun, genResult,
              thrown, blendWeights, ppc>>
wasmVars == <<initialized, initCalls, initResults, caller>>

vars == <<gridVars, eroVars, hydroVars, pipeVars, wasmVars>>

(***************************************************************************)
(* Bounds of the model.                                                    *)
(***************************************************************************)
MaxRows == 2
MaxCols == 2
MaxOverlap == 1
MaxInner == 2
MaxSeed == 2
FieldLevels == 5
Q == 1000
GridSize == 3
MaxSlope == 1
MaxPeak == 2
MaxCoef == 2

(***************************************************************************)
(* Small helpers.                                                          *)
(***************************************************************************)
Max(a, b) == IF a >= b THEN a ELSE b
Min(a, b) == IF a <= b THEN a ELSE b

\* A rational number num/den kept as the pair the code divides.
Rat(num, den) == <<num, den>>
RatEq(a, b) == a[2] # 0 /\ b[2] # 0 /\ a[1] * b[2] = b[1] * a[2]

(***************************************************************************)
(* HeightField: a size x size row-major grid; get clamps to the edge.      *)
(***************************************************************************)
HFClamp(v, size) == Max(0, Min(size - 1, v))
HFGet(data, size, x, y) == data[HFClamp(y, size) * size + HFClamp(x, size)]

(***************************************************************************)
(* generateContinuousTileGrid                                              *)
(***************************************************************************)
\* A slip that takes the overlap off one side only.
InnerSingleMargin(c) == c.tileSize - c.overlap
Inner(c) == c.tileSize - 2 * c.overlap
TotalWidth(c) == c.cols * Inner(c) + 2 * c.overlap
TotalHeight(c) == c.rows * Inner(c) + 2 * c.overlap
ContinuousSize(c) == Max(TotalWidth(c), TotalHeight(c))
AtlasW(c) == c.cols * Inner(c)
AtlasH(c) == c.rows * Inner(c)

\* The field generateTerrain + resampleTo hand over: any heights; the model
\* draws them from a seeded family.
Terrain(seed, x, y) == (seed * x * x + (seed + 1) * y + seed * x * y + x) % FieldLevels
ContinuousField(c) ==
  [i \in 0..(ContinuousSize(c) * ContinuousSize(c) - 1) |->
     Terrain(c.seed, i % ContinuousSize(c), i \div ContinuousSize(c))]

\* A slip that steps the source window by the full tile size.
SrcXByTileSize(c, col) == col * c.tileSize
SrcX(c, col) == col * Inner(c)
SrcY(c, row) == row * Inner(c)

\* Lines 41-55: the copy of one N x N block into a fresh tile.
ExtractBlock(c, field, row, col) ==
  [i \in 0..(c.tileSize * c.tileSize - 1) |->
     HFGet(field, ContinuousSize(c),
           SrcX(c, col) + (i % c.tileSize), SrcY(c, row) + (i \div c.tileSize))]

\* A slip that takes the row offset for the column offset.
AtlasIndexRowOffset(offX, offY, x, y, atlasW) == (offY + y) * atlasW + (offY + x)
AtlasIndex(offX, offY, x, y, atlasW) == (offY + y) * atlasW + (offX + x)

\* Lines 74-80: the inner region of one tile written cell by cell, k-th
\* cell being (x, y) = (k % inner, k \div inner).
RECURSIVE WriteInner(_, _, _, _, _, _)
WriteInner(c, arr, tile, row, col, k) ==
  IF k >= Inner(c) * Inner(c) THEN arr
  ELSE LET x == k % Inner(c)
           y == k \div Inner(c)
           v == HFGet(tile, c.tileSize, x + c.overlap, y + c.overlap)
           ai == AtlasIndex(col * Inner(c), row * Inner(c), x, y, AtlasW(c))
           next == IF ai \in DOMAIN arr THEN [arr EXCEPT ![ai] = v] ELSE arr
       IN WriteInner(c, next, tile, row, col, k + 1)

RECURSIVE CountInner(_, _, _, _, _)
CountInner(c, cnt, row, col, k) ==
  IF k >= Inner(c) * Inner(c) THEN cnt
  ELSE LET ai == AtlasIndex(col * Inner(c), row * Inner(c),
                            k % Inner(c), k \div Inner(c), AtlasW(c))
           next == IF ai \in DOMAIN cnt THEN [cnt EXCEPT ![ai] = @ + 1] ELSE cnt
       IN CountInner(c, next, row, col, k + 1)

\* Lines 88-92: one UV rectangle, each coordinate the quotient the code forms.
RectU0(c, col) == Rat(col * Inner(c), AtlasW(c))
RectV0(c, row) == Rat(row * Inner(c), AtlasH(c))
\* A slip that divides by atlasSize = max(atlasW, atlasH) instead of atlasW.
RectU1ByAtlasSize(c, col) == Rat((col + 1) * Inner(c), Max(AtlasW(c), AtlasH(c)))
RectU1(c, col) == Rat((col + 1) * Inner(c), AtlasW(c))
RectV1(c, row) == Rat((row + 1) * Inner(c), AtlasH(c))
UVRect(c, row, col) ==
  [u0 |-> RectU0(c, col), v0 |-> RectV0(c, row),
   u1 |-> RectU1(c, col), v1 |-> RectV1(c, row)]

\* The variables of the functions a specification does not run.
GridIdle ==
  /\ cfg = [rows |-> 0, cols |-> 0, tileSize |-> 0, overlap |-> 0, seed |-> 0]
  /\ continuous = <<>> /\ tiles = <<>> /\ atlas = <<>> /\ atlasWrites = <<>>
  /\ rects = <<>> /\ tileIdx = 0 /\ gpc = "idle"
EroIdle ==
  /\ params = [timeYears |-> 0, seaLevel |-> 0, windStrength |-> 0,
               rainIntensity |-> 0, temperatureCycles |-> 0]
  /\ hfData = <<>> /\ initialData = <<>>
  /\ iterations = [wind |-> 0, thermal |-> 0, hydraulic |-> 0]
  /\ waterFeatures = [waterMask |-> <<>>, riverMask |-> <<>>, beachMask |-> <<>>,
                      flowAccumulation |-> <<>>]
  /\ passMask = <<>> /\ passDeposition = <<>>
  /\ totalErosionMask = <<>> /\ totalDepositionMask = <<>>
  /\ iter = 0 /\ done = [wind |-> 0, thermal |-> 0, hydraulic |-> 0]
  /\ passLog = <<>> /\ epc = "idle"
HydroIdle ==
  /\ hIn = [data |-> <<>>, flow |-> <<>>, threshold |-> 0, seaLevel |-> 0, beachWidth |-> 0]
  /\ hOut = <<>> /\ hpc = "idle"
NoOptions == [baseSize |-> {}, steps |-> 0, seed |-> 0, biome |-> "", seaLevel |-> {},
              erosionYears |-> {}]
NoErosionRun ==
  [params |-> [timeYears |-> 0, seaLevel |-> 0, rainIntensity |-> 0, temperatureCycles |-> 0],
   iterations |-> [wind |-> 0, thermal |-> 0, hydraulic |-> 0]]
NothingProduced ==
  [produced |-> {}, tiles |-> 0, innerSize |-> 0, atlasW |-> 0, atlasH |-> 0,
   atlasLength |-> 0, rects |-> 0, continuousSize |-> 0, maskLength |-> 0]
PipeIdle ==
  /\ gcfg = [rows |-> 0, cols |-> 0, tileSize |-> 0, overlap |-> 0, seed |-> 0,
             baseSize |-> {}, steps |-> {}, seaLevel |-> {}, erosionYears |-> {},
             blendSeams |-> FALSE]
  /\ entryPoint = "" /\ opts = NoOptions /\ hSize = 0
  /\ levelLog = <<>> /\ stageLog = <<>> /\ erosionRun = NoErosionRun
  /\ genResult = NothingProduced /\ thrown = "none" /\ blendWeights = <<>> /\ ppc = "idle"
WasmIdle ==
  /\ initialized = FALSE /\ initCalls = 0 /\ initResults = <<>> /\ caller = <<>>

GridConfigs ==
  { [rows |-> r, cols |-> k, tileSize |-> n + 2 * o, overlap |-> o, seed |-> s] :
      r \in 1..MaxRows, k \in 1..MaxCols, n \in 1..MaxInner,
      o \in 1..MaxOverlap, s \in 0..MaxSeed }

GridInit ==
  /\ cfg \in GridConfigs
  /\ continuous = ContinuousField(cfg)
  /\ tiles = <<>>
  /\ atlas = [i \in 0..(AtlasW(cfg) * AtlasH(cfg) - 1) |-> 0]
  /\ atlasWrites = [i \in 0..(AtlasW(cfg) * AtlasH(cfg) - 1) |-> 0]
  /\ rects = <<>>
  /\ tileIdx = 0
  /\ gpc = "extract"
  /\ EroIdle /\ HydroIdle /\ PipeIdle /\ WasmIdle

\* Lines 39-59: one turn of the (r, c) loop; the tile pushed is tile
\* Len(tiles), i.e. r = Len(tiles) \div cols, c = Len(tiles) % cols.
ExtractTile ==
  /\ gpc = "extract"
  /\ Len(tiles) < cfg.rows * cfg.cols
  /\ tiles' = Append(tiles,
        ExtractBlock(cfg, continuous, Len(tiles) \div cfg.cols, Len(tiles) % cfg.cols))
  /\ gpc' = IF Len(tiles) + 1 = cfg.rows * cfg.cols THEN "atlas" ELSE "extract"
  /\ UNCHANGED <<cfg, continuous, atlas, atlasWrites, rects, tileIdx, eroVars, hydroVars, pipeVars, wasmVars>>

\* Lines 68-82: one turn of the atlas loop, tile = tiles[tileIdx++].
PackTile ==
  /\ gpc = "atlas"
  /\ tileIdx < cfg.rows * cfg.cols
  /\ LET row == tileIdx \div cfg.cols
         col == tileIdx % cfg.cols
     IN /\ atlas' = WriteInner(cfg, atlas, tiles[tileIdx + 1], row, col, 0)
        /\ atlasWrites' = CountInner(cfg, atlasWrites, row, col, 0)
  /\ tileIdx' = tileIdx + 1
  /\ gpc' = IF tileIdx + 1 = cfg.rows * cfg.cols THEN "rects" ELSE "atlas"
  /\ UNCHANGED <<cfg, continuous, tiles, rects, eroVars, hydroVars, pipeVars, wasmVars>>

\* Lines 85-94 and the return: all rectangles, row-major.
GenerateRects ==
  /\ gpc = "rects"
  /\ rects' = [i \in 1..(cfg.rows * cfg.cols) |->
                 UVRect(cfg, (i - 1) \div cfg.cols, (i - 1) % cfg.cols)]
  /\ gpc' = "done"
  /\ UNCHANGED <<cfg, continuous, tiles, atlas, atlasWrites, tileIdx, eroVars, hydroVars, pipeVars, wasmVars>>

GridNext == ExtractTile \/ PackTile \/ GenerateRects

SpecGrid == GridInit /\ [][GridNext]_vars

\* tile(r, c).get(x, y) of the returned grid
TileGet(row, col, x, y) == HFGet(tiles[row * cfg.cols + col + 1], cfg.tileSize, x, y)

(***************************************************************************)
(* Fixed-point arithmetic: the real v is the integer v * Q.                *)
(***************************************************************************)
Mul(a, b) == (a * b) \div Q
Div(a, b) == (a * Q) \div b
Abs(a) == IF a < 0 THEN -a ELSE a
Zeros(n) == [i \in 0..(n - 1) |-> 0]
Filled(n, v) == [i \in 0..(n - 1) |-> v]

\* Math.ceil(a / b) for b > 0
CeilDiv(a, b) == IF a % b = 0 THEN a \div b ELSE (a \div b) + 1

\* Math.sqrt(d2) for an integer d2 >= 0: the largest r with r*r <= d2*Q*Q
RECURSIVE SqrtSearch(_, _, _)
SqrtSearch(n, lo, hi) ==
  IF lo >= hi THEN lo
  ELSE LET mid == (lo + hi + 1) \div 2
       IN IF mid * mid <= n THEN SqrtSearch(n, mid, hi) ELSE SqrtSearch(n, lo, mid - 1)
Sqrt(d2) == SqrtSearch(d2 * Q * Q, 0, Min(46000, (d2 + 1) * Q))

\* The decimal constants of the source, in fixed point.
K0_001 == Q \div 1000
K0_01 == Q \div 100
K0_02 == (2 * Q) \div 100
K0_05 == (5 * Q) \div 100
K0_08 == (8 * Q) \div 100
K0_1 == Q \div 10
K0_3 == (3 * Q) \div 10
K0_5 == Q \div 2
K0_6 == (6 * Q) \div 10
K0_7 == (7 * Q) \div 10
K1_5 == (15 * Q) \div 10
talusAngle == (8 * Q) \div 10

(***************************************************************************)
(* WaterSystem: calculateFlowAccumulation                                  *)
(***************************************************************************)
\* D8 directions: N, NE, E, SE, S, SW, W, NW
D8dx == <<0, 1, 1, 1, 0, -1, -1, -1>>
D8dy == <<-1, -1, 0, 1, 1, 1, 0, -1>>

\* A slip that puts equal heights in descending index order.
SortRankTiesDescending(data, i) ==
  Cardinality({j \in DOMAIN data : data[j] > data[i] \/ (data[j] = data[i] /\ j > i)})
\* points.sort((a, b) => b.height - a.height): a stable sort of the cells
\* pushed in (y, x) order, so descending height, equal heights by index.
SortRank(data, i) ==
  Cardinality({j \in DOMAIN data : data[j] > data[i] \/ (data[j] = data[i] /\ j < i)})
SortedPoints(data) ==
  [k \in 1..Cardinality(DOMAIN data) |-> CHOOSE i \in DOMAIN data : SortRank(data, i) = k - 1]

\* A slip that looks for the steepest ascent.
SlopeGreaterUphill(diffA, d2A, diffB, d2B) ==
  diffA < 0 /\ diffA * diffA * d2B > diffB * diffB * d2A
\* slope a > slope b for slopes diff / sqrt(d2), b's diff >= 0: compared
\* exactly, as the squares.
SlopeGreater(diffA, d2A, diffB, d2B) ==
  diffA > 0 /\ diffA * diffA * d2B > diffB * diffB * d2A

\* Lines 52-71: the scan of the eight directions; best = the steepest
\* slope so far and its target (to = -1: none).
RECURSIVE FindSteepest(_, _, _, _, _)
FindSteepest(data, size, idx, dir, best) ==
  IF dir > 8 THEN best
  ELSE LET nx == (idx % size) + D8dx[dir]
           ny == (idx \div size) + D8dy[dir]
           inside == nx >= 0 /\ nx < size /\ ny >= 0 /\ ny < size
           nIdx == ny * size + nx
           d2 == D8dx[dir] * D8dx[dir] + D8dy[dir] * D8dy[dir]
           steeper == inside /\ SlopeGreater(data[idx] - data[nIdx], d2, best.diff, best.d2)
       IN FindSteepest(data, size, idx, dir + 1,
                       IF steeper
                       THEN [diff |-> data[idx] - data[nIdx], d2 |-> d2, to |-> nIdx]
                       ELSE best)

NoTarget == [diff |-> 0, d2 |-> 1, to |-> -1]

\* A slip that passes on one unit instead of the accumulated flow.
FlowAddedUnit(flow, p) == Q
\* A slip that drains the target instead of feeding it.
FlowAddedNegated(flow, p) == -flow[p]
\* Lines 73-77: what one processed point adds to its target.
FlowAdded(flow, p) == flow[p]

\* Lines 48-80: the points processed from highest to lowest.
RECURSIVE AccumulateFlow(_, _, _, _, _)
AccumulateFlow(data, size, order, k, flow) ==
  IF k > Len(order) THEN flow
  ELSE LET p == order[k]
           best == FindSteepest(data, size, p, 1, NoTarget)
       IN AccumulateFlow(data, size, order, k + 1,
             IF best.to >= 0
             THEN [flow EXCEPT ![best.to] = @ + FlowAdded(flow, p)]
             ELSE flow)

calculateFlowAccumulation(data, size) ==
  IF size <= 0 \/ Cardinality(DOMAIN data) # size * size
  THEN Zeros(Max(0, size * size))
  ELSE AccumulateFlow(data, size, SortedPoints(data), 1, Filled(size * size, Q))

(***************************************************************************)
(* WaterSystem: generateRiverMask                                          *)
(***************************************************************************)
RECURSIVE ArrayMax(_, _, _)
ArrayMax(arr, i, m) ==
  IF i \notin DOMAIN arr THEN m
  ELSE ArrayMax(arr, i + 1, IF arr[i] > m THEN arr[i] ELSE m)

\* A slip that leaves out the tributary band.
RiverBaseNoBanks(f, maxFlow, threshold) ==
  IF Div(f, maxFlow) > threshold
  THEN Min(Q, Div(Div(f, maxFlow) - threshold, Q - threshold))
  ELSE 0
\* Lines 106-115: the pre-dilation value of one cell.
RiverBase(f, maxFlow, threshold) ==
  LET normalizedFlow == Div(f, maxFlow)
  IN IF normalizedFlow > threshold
     THEN Min(Q, Div(normalizedFlow - threshold, Q - threshold))
     ELSE IF normalizedFlow > Mul(threshold, K0_3)
          THEN Mul(Div(normalizedFlow - Mul(threshold, K0_3), Mul(threshold, K0_7)), K0_3)
          ELSE 0

\* Line 132
RiverExpansion(v, distance) == Mul(Mul(v, K0_6), Q - Div(distance, K1_5))

\* Lines 126-136: the 3x3 neighbourhood of one main-river cell, k-th
\* neighbour being (dx, dy) = (k % 3 - 1, k \div 3 - 1).
RECURSIVE ExpandCell(_, _, _, _, _)
ExpandCell(riverMask, smoothed, size, idx, k) ==
  IF k >= 9 THEN smoothed
  ELSE LET dx == (k % 3) - 1
           dy == (k \div 3) - 1
           nIdx == ((idx \div size) + dy) * size + ((idx % size) + dx)
           distance == Sqrt(dx * dx + dy * dy)
           next == IF distance <= K1_5
                   THEN [smoothed EXCEPT
                           ![nIdx] = Max(@, RiverExpansion(riverMask[idx], distance))]
                   ELSE smoothed
       IN ExpandCell(riverMask, next, size, idx, k + 1)

IsInterior(size, idx) ==
  /\ idx % size >= 1 /\ idx % size < size - 1
  /\ idx \div size >= 1 /\ idx \div size < size - 1

\* Lines 120-139: the interior cells in row-major order.
RECURSIVE DilateRivers(_, _, _, _)
DilateRivers(riverMask, smoothed, size, idx) ==
  IF idx >= size * size THEN smoothed
  ELSE DilateRivers(riverMask,
         IF IsInterior(size, idx) /\ riverMask[idx] > K0_5
         THEN ExpandCell(riverMask, smoothed, size, idx, 0)
         ELSE smoothed,
         size, idx + 1)

generateRiverMask(size, flowAccumulation, threshold) ==
  LET maxFlow == ArrayMax(flowAccumulation, 0, 0)
      base == [i \in 0..(size * size - 1) |->
                 IF i \in DOMAIN flowAccumulation
                 THEN RiverBase(flowAccumulation[i], maxFlow, threshold)
                 ELSE 0]
  IN IF maxFlow = 0 THEN Zeros(size * size)
     ELSE DilateRivers(base, base, size, 0)

(***************************************************************************)
(* WaterSystem: generateBeachMask                                          *)
(***************************************************************************)
\* Line 162
BelowSea(h, seaLevel) == IF h <= seaLevel THEN Q ELSE 0

\* Lines 178-193: the in-bounds window offsets <<dy, dx>> that hold water
\* within beachPixels, and the one the scan (dy outer, dx inner) meets first.
BeachHits(water, size, idx, beachPixels) ==
  { o \in (-beachPixels..beachPixels) \X (-beachPixels..beachPixels) :
      LET nx == (idx % size) + o[2]
          ny == (idx \div size) + o[1]
      IN /\ nx >= 0 /\ nx < size /\ ny >= 0 /\ ny < size
         /\ water[ny * size + nx] > 0
         /\ o[1] * o[1] + o[2] * o[2] <= beachPixels * beachPixels }
FirstHit(hits) ==
  CHOOSE o \in hits : \A p \in hits : o[1] < p[1] \/ (o[1] = p[1] /\ o[2] <= p[2])

\* Line 188
BeachValue(distance, beachPixels) == Max(0, Q - Div(distance, beachPixels * Q))

generateBeachMask(data, size, seaLevel, beachWidth) ==
  LET water == [i \in DOMAIN data |-> BelowSea(data[i], seaLevel)]
      beachPixels == CeilDiv(beachWidth, Q)
  IN [idx \in 0..(size * size - 1) |->
        IF water[idx] > 0 THEN Q
        ELSE LET hits == BeachHits(water, size, idx, beachPixels)
             IN IF hits = {} THEN 0
                ELSE LET o == FirstHit(hits)
                     IN BeachValue(Sqrt(o[1] * o[1] + o[2] * o[2]), beachPixels)]

(***************************************************************************)
(* GeologicalErosion: the three passes, one outer-loop iteration each.     *)
(* A pass state st is [data |-> heights, mask |-> the pass's erosionMask,  *)
(* dep |-> the pass's depositionMask].                                     *)
(***************************************************************************)
SetMax(S) == CHOOSE m \in S : \A v \in S : m >= v

\* The neighbour of an interior cell at offset k of the (dy, dx) double
\* loop: (dx, dy) = (k % 3 - 1, k \div 3 - 1); k = 4 is the cell itself.
NeighborAt(size, idx, k) == idx + ((k \div 3) - 1) * size + ((k % 3) - 1)
Neighbors8(size, idx) == { NeighborAt(size, idx, k) : k \in (0..8) \ {4} }

\* Lines 33-40: maxNeighborHeight starts at 0.
MaxNeighborHeight(data, size, idx) ==
  SetMax({0} \cup { data[n] : n \in Neighbors8(size, idx) })

\* Lines 42-43
WindErosionAmount(data, size, idx, windStrength) ==
  LET exposure == Max(0, data[idx] - MaxNeighborHeight(data, size, idx) + K0_1)
  IN Mul(Mul(windStrength, exposure), K0_01)

\* Lines 45-48: the height written back.
WindLowered(h, windErosion) == h - windErosion

\* Lines 29-48
WindCell(st, size, idx, windStrength) ==
  LET windErosion == WindErosionAmount(st.data, size, idx, windStrength)
  IN IF windErosion > 0
     THEN [st EXCEPT !.data[idx] = WindLowered(@, windErosion),
                     !.mask[idx] = @ + windErosion]
     ELSE st

\* Lines 27-50: the interior cells in row-major order, in place.
RECURSIVE WindSweep(_, _, _, _)
WindSweep(st, size, idx, windStrength) ==
  IF idx >= size * size THEN st
  ELSE WindSweep(IF IsInterior(size, idx) THEN WindCell(st, size, idx, windStrength) ELSE st,
                 size, idx + 1, windStrength)

\* A slip that deposits the whole eroded amount on the neighbour.
ThermalDepositFull(erosionAmount) == erosionAmount
\* Line 85: what the neighbour receives.
ThermalDeposit(erosionAmount) == Mul(erosionAmount, K0_5)

\* Lines 72-89: the neighbours of one cell; reads data, writes st.data
\* (the pass's newData).
RECURSIVE ThermalCell(_, _, _, _, _, _)
ThermalCell(st, data, size, idx, k, temperatureCycles) ==
  IF k >= 9 THEN st
  ELSE LET nIdx == NeighborAt(size, idx, k)
           heightDiff == data[idx] - data[nIdx]
           erosionAmount == Mul(Mul(heightDiff - talusAngle, temperatureCycles), K0_001)
           half == Mul(erosionAmount, K0_5)
           next == IF k # 4 /\ heightDiff > talusAngle
                   THEN [st EXCEPT !.data[idx] = @ - half,
                                   !.data[nIdx] = @ + ThermalDeposit(erosionAmount),
                                   !.mask[idx] = @ + half]
                   ELSE st
       IN ThermalCell(next, data, size, idx, k + 1, temperatureCycles)

\* Lines 64-96: newData = copy of data, the sweep, the copy back.
RECURSIVE ThermalSweep(_, _, _, _, _)
ThermalSweep(st, data, size, idx, temperatureCycles) ==
  IF idx >= size * size THEN st
  ELSE ThermalSweep(IF IsInterior(size, idx)
                    THEN ThermalCell(st, data, size, idx, 0, temperatureCycles)
                    ELSE st,
                    data, size, idx + 1, temperatureCycles)

\* Lines 132-142
RECURSIVE TotalSlope(_, _, _, _)
TotalSlope(data, size, idx, k) ==
  IF k >= 9 THEN 0
  ELSE (IF k = 4 THEN 0 ELSE Abs(data[idx] - data[NeighborAt(size, idx, k)]))
       + TotalSlope(data, size, idx, k + 1)
AvgSlope(data, size, idx) == TotalSlope(data, size, idx, 0) \div 8

\* Lines 156-170: the first neighbour of greatest positive drop, or -1.
RECURSIVE DepositTarget(_, _, _, _, _, _)
DepositTarget(data, size, idx, k, steepestSlope, depositIdx) ==
  IF k >= 9 THEN depositIdx
  ELSE LET nIdx == NeighborAt(size, idx, k)
           slope == data[idx] - data[nIdx]
       IN IF k # 4 /\ slope > steepestSlope
          THEN DepositTarget(data, size, idx, k + 1, slope, nIdx)
          ELSE DepositTarget(data, size, idx, k + 1, steepestSlope, depositIdx)

\* Lines 125-177
HydraulicCell(st, size, idx, wf, maxFlow, rainIntensity) ==
  LET flow == Div(wf.flowAccumulation[idx], maxFlow)
      riverStrength == wf.riverMask[idx]
      avgSlope == AvgSlope(st.data, size, idx)
      hydraulicErosion == Mul(Mul(Mul(flow, avgSlope), rainIntensity), K0_02)
      riverErosion == Mul(Mul(Mul(riverStrength, avgSlope), rainIntensity), K0_05)
      totalErosion == hydraulicErosion + riverErosion
      eroded == [st EXCEPT !.data[idx] = @ - totalErosion, !.mask[idx] = @ + totalErosion]
      depositIdx == DepositTarget(eroded.data, size, idx, 0, 0, -1)
      depositionAmount == Mul(totalErosion, K0_3)
  IN IF totalErosion > 0
     THEN IF depositIdx >= 0
          THEN [eroded EXCEPT !.data[depositIdx] = @ + depositionAmount,
                              !.dep[depositIdx] = @ + depositionAmount]
          ELSE eroded
     ELSE st

\* Lines 123-179
RECURSIVE HydraulicSweep(_, _, _, _, _, _)
HydraulicSweep(st, size, idx, wf, maxFlow, rainIntensity) ==
  IF idx >= size * size THEN st
  ELSE HydraulicSweep(IF IsInterior(size, idx)
                      THEN HydraulicCell(st, size, idx, wf, maxFlow, rainIntensity)
                      ELSE st,
                      size, idx + 1, wf, maxFlow, rainIntensity)

(***************************************************************************)
(* applyGeologicalErosion                                                  *)
(***************************************************************************)
\* A slip that gives the wind pass one turn even for a zero time span.
windIterationsAtLeastOne(p) == Max(1, CeilDiv(p.timeYears, 100 * Q))
\* Lines 193-195: timeYears is in fixed point, the divisors are years.
windIterationsOf(p) == CeilDiv(p.timeYears, 100 * Q)
\* A slip that rounds the budget down.
thermalIterationsFloor(p) == p.timeYears \div (50 * Q)
thermalIterationsOf(p) == CeilDiv(p.timeYears, 50 * Q)
hydraulicIterationsOf(p) == CeilDiv(p.timeYears, 25 * Q)

\* params.seaLevel / 1000
SeaLevelUnits(p) == p.seaLevel \div 1000

\* Slips: the two terms added instead of maximised; the river term left out.
WaterMaskSum(h, sea, river) == BelowSea(h, sea) + river
WaterMaskSeaOnly(h, sea, river) == BelowSea(h, sea)
\* Lines 213-214 and 263-264
WaterMaskValue(h, sea, river) == Max(BelowSea(h, sea), river)
BuildWaterMask(heights, sea, riverMask) ==
  [i \in DOMAIN heights |-> WaterMaskValue(heights[i], sea, riverMask[i])]

\* A slip that runs the wind pass for a zero strength too.
WindEnabledAtZero(p) == p.windStrength >= 0
\* Lines 222, 231, 240
WindEnabled(p) == p.windStrength > 0
ThermalEnabled(p) == p.temperatureCycles > 0
HydraulicEnabled(p) == p.rainIntensity > 0

AddArrays(a, b) == [i \in DOMAIN a |-> a[i] + b[i]]

\* The heightfields handed to applyGeologicalErosion: a plane of slope
\* (a, b) half units per cell with a peak of pk units on cell (1, 1).
TerrainHeights(a, b, pk) ==
  [i \in 0..(GridSize * GridSize - 1) |->
     (a * (i % GridSize) + b * (i \div GridSize)) * (Q \div 2)
       + (IF i = GridSize + 1 THEN pk * Q ELSE 0)]
\* A plain lying one unit below zero.
SunkenField == Filled(GridSize * GridSize, -Q)
ErosionFields ==
  { TerrainHeights(a, b, pk) : a \in 0..MaxSlope, b \in 0..MaxSlope, pk \in 0..MaxPeak }
    \cup {SunkenField}

\* A geological time of 5000 years is run on the peak alone, without rain.
LongRun(f, p) ==
  p.timeYears = 5000 * Q =>
    /\ f = TerrainHeights(0, 0, MaxPeak)
    /\ p.rainIntensity = 0 /\ p.seaLevel = 0 /\ p.temperatureCycles > 0

ErosionParamsSet ==
  [timeYears : {0, 30 * Q, 100 * Q, 5000 * Q},
   seaLevel : {0, 500 * Q},
   windStrength : {0, 20 * Q},
   rainIntensity : {0, Q},
   temperatureCycles : {0, 50 * Q}]

EroInit ==
  /\ params \in ErosionParamsSet
  /\ hfData \in ErosionFields
  /\ LongRun(hfData, params)
  /\ initialData = hfData
  /\ iterations = [wind |-> 0, thermal |-> 0, hydraulic |-> 0]
  /\ waterFeatures = [waterMask |-> <<>>, riverMask |-> <<>>, beachMask |-> <<>>,
                      flowAccumulation |-> <<>>]
  /\ passMask = <<>> /\ passDeposition = <<>>
  /\ totalErosionMask = <<>> /\ totalDepositionMask = <<>>
  /\ iter = 0 /\ done = [wind |-> 0, thermal |-> 0, hydraulic |-> 0]
  /\ passLog = <<>> /\ epc = "start"
  /\ GridIdle /\ HydroIdle /\ PipeIdle /\ WasmIdle

\* Lines 190-219: budgets, initial flow and masks, the zeroed totals.
Base ==
  /\ epc = "start"
  /\ iterations' = [wind |-> windIterationsOf(params),
                    thermal |-> thermalIterationsOf(params),
                    hydraulic |-> hydraulicIterationsOf(params)]
  /\ LET flowAccumulation == calculateFlowAccumulation(hfData, GridSize)
         riverMask == generateRiverMask(GridSize, flowAccumulation, K0_08)
         beachMask == generateBeachMask(hfData, GridSize, SeaLevelUnits(params), 8 * Q)
     IN waterFeatures' =
          [waterMask |-> BuildWaterMask(hfData, SeaLevelUnits(params), riverMask),
           riverMask |-> riverMask,
           beachMask |-> beachMask,
           flowAccumulation |-> flowAccumulation]
  /\ totalErosionMask' = Zeros(GridSize * GridSize)
  /\ totalDepositionMask' = Zeros(GridSize * GridSize)
  /\ passLog' = Append(passLog, "base")
  /\ epc' = "windIf"
  /\ UNCHANGED <<params, hfData, initialData, passMask, passDeposition, iter, done,
                 gridVars, hydroVars, pipeVars, wasmVars>>

\* Lines 222-224 and 20-23: the wind pass is entered.
WindStart ==
  /\ epc = "windIf" /\ WindEnabled(params)
  /\ passMask' = Zeros(GridSize * GridSize)
  /\ iter' = 0
  /\ passLog' = Append(passLog, "wind")
  /\ epc' = "wind"
  /\ UNCHANGED <<params, hfData, initialData, iterations, waterFeatures, passDeposition,
                 totalErosionMask, totalDepositionMask, done, gridVars, hydroVars, pipeVars, wasmVars>>

WindSkip ==
  /\ epc = "windIf" /\ ~WindEnabled(params)
  /\ epc' = "thermalIf"
  /\ UNCHANGED <<params, hfData, initialData, iterations, waterFeatures, passMask,
                 passDeposition, totalErosionMask, totalDepositionMask, iter, done, passLog,
                 gridVars, hydroVars, pipeVars, wasmVars>>

\* Lines 26-51: one turn of the loop over i.
WindIteration ==
  /\ epc = "wind" /\ iter < iterations.wind
  /\ LET st == WindSweep([data |-> hfData, mask |-> passMask, dep |-> <<>>],
                         GridSize, 0, params.windStrength)
     IN hfData' = st.data /\ passMask' = st.mask
  /\ iter' = iter + 1
  /\ done' = [done EXCEPT !.wind = @ + 1]
  /\ UNCHANGED <<params, initialData, iterations, waterFeatures, passDeposition,
                 totalErosionMask, totalDepositionMask, passLog, epc, gridVars, hydroVars, pipeVars, wasmVars>>

\* Lines 53 and 225-227
WindEnd ==
  /\ epc = "wind" /\ ~(iter < iterations.wind)
  /\ totalErosionMask' = AddArrays(totalErosionMask, passMask)
  /\ epc' = "thermalIf"
  /\ UNCHANGED <<params, hfData, initialData, iterations, waterFeatures, passMask,
                 passDeposition, totalDepositionMask, iter, done, passLog, gridVars, hydroVars, pipeVars, wasmVars>>

\* Lines 231-233 and 57-61
ThermalStart ==
  /\ epc = "thermalIf" /\ ThermalEnabled(params)
  /\ passMask' = Zeros(GridSize * GridSize)
  /\ iter' = 0
  /\ passLog' = Append(passLog, "thermal")
  /\ epc' = "thermal"
  /\ UNCHANGED <<params, hfData, initialData, iterations, waterFeatures, passDeposition,
                 totalErosionMask, totalDepositionMask, done, gridVars, hydroVars, pipeVars, wasmVars>>

ThermalSkip ==
  /\ epc = "thermalIf" /\ ~ThermalEnabled(params)
  /\ epc' = "hydraulicIf"
  /\ UNCHANGED <<params, hfData, initialData, iterations, waterFeatures, passMask,
                 passDeposition, totalErosionMask, totalDepositionMask, iter, done, passLog,
                 gridVars, hydroVars, pipeVars, wasmVars>>

\* Lines 63-97: one turn of the loop over i.
ThermalIteration ==
  /\ epc = "thermal" /\ iter < iterations.thermal
  /\ LET st == ThermalSweep([data |-> hfData, mask |-> passMask, dep |-> <<>>],
                            hfData, GridSize, 0, params.temperatureCycles)
     IN hfData' = st.data /\ passMask' = st.mask
  /\ iter' = iter + 1
  /\ done' = [done EXCEPT !.thermal = @ + 1]
  /\ UNCHANGED <<params, initialData, iterations, waterFeatures, passDeposition,
                 totalErosionMask, totalDepositionMask, passLog, epc, gridVars, hydroVars, pipeVars, wasmVars>>

\* Lines 99 and 234-236
ThermalEnd ==
  /\ epc = "thermal" /\ ~(iter < iterations.thermal)
  /\ totalErosionMask' = AddArrays(totalErosionMask, passMask)
  /\ epc' = "hydraulicIf"
  /\ UNCHANGED <<params, hfData, initialData, iterations, waterFeatures, passMask,
                 passDeposition, totalDepositionMask, iter, done, passLog, gridVars, hydroVars, pipeVars, wasmVars>>

\* Lines 240-252: flow and river mask recomputed on the modified terrain;
\* the waterMask array is carried over.
HydraulicReflow ==
  /\ epc = "hydraulicIf" /\ HydraulicEnabled(params)
  /\ LET newFlowAccumulation == calculateFlowAccumulation(hfData, GridSize)
         newRiverMask == generateRiverMask(GridSize, newFlowAccumulation, K0_08)
     IN waterFeatures' =
          [waterMask |-> waterFeatures.waterMask,
           riverMask |-> newRiverMask,
           beachMask |-> generateBeachMask(hfData, GridSize, SeaLevelUnits(params), 8 * Q),
           flowAccumulation |-> newFlowAccumulation]
  /\ passLog' = Append(passLog, "reflow")
  /\ epc' = "hydraulicCall"
  /\ UNCHANGED <<params, hfData, initialData, iterations, passMask, passDeposition,
                 totalErosionMask, totalDepositionMask, iter, done, gridVars, hydroVars, pipeVars, wasmVars>>

\* Lines 254 and 109-120: applyHydraulicErosion is entered.
HydraulicStart ==
  /\ epc = "hydraulicCall"
  /\ passMask' = Zeros(GridSize * GridSize)
  /\ passDeposition' = Zeros(GridSize * GridSize)
  /\ iter' = 0
  /\ passLog' = Append(passLog, "hydraulic")
  /\ epc' = "hydraulic"
  /\ UNCHANGED <<params, hfData, initialData, iterations, waterFeatures,
                 totalErosionMask, totalDepositionMask, done, gridVars, hydroVars, pipeVars, wasmVars>>

HydraulicSkip ==
  /\ epc = "hydraulicIf" /\ ~HydraulicEnabled(params)
  /\ epc' = "return"
  /\ UNCHANGED <<params, hfData, initialData, iterations, waterFeatures, passMask,
                 passDeposition, totalErosionMask, totalDepositionMask, iter, done, passLog,
                 gridVars, hydroVars, pipeVars, wasmVars>>

\* Lines 122-180: one turn of the loop over i.
HydraulicIteration ==
  /\ epc = "hydraulic" /\ iter < iterations.hydraulic
  /\ LET st == HydraulicSweep([data |-> hfData, mask |-> passMask, dep |-> passDeposition],
                              GridSize, 0, waterFeatures,
                              ArrayMax(waterFeatures.flowAccumulation, 0, 0),
                              params.rainIntensity)
     IN hfData' = st.data /\ passMask' = st.mask /\ passDeposition' = st.dep
  /\ iter' = iter + 1
  /\ done' = [done EXCEPT !.hydraulic = @ + 1]
  /\ UNCHANGED <<params, initialData, iterations, waterFeatures,
                 totalErosionMask, totalDepositionMask, passLog, epc, gridVars, hydroVars, pipeVars, wasmVars>>

\* Lines 182 and 256-265: the totals, and the final water mask.
HydraulicEnd ==
  /\ epc = "hydraulic" /\ ~(iter < iterations.hydraulic)
  /\ totalErosionMask' = AddArrays(totalErosionMask, passMask)
  /\ totalDepositionMask' = AddArrays(totalDepositionMask, passDeposition)
  /\ waterFeatures' =
       [waterFeatures EXCEPT
          !.waterMask = BuildWaterMask(hfData, SeaLevelUnits(params), waterFeatures.riverMask)]
  /\ epc' = "return"
  /\ UNCHANGED <<params, hfData, initialData, iterations, passMask, passDeposition,
                 iter, done, passLog, gridVars, hydroVars, pipeVars, wasmVars>>

\* Lines 268-275
Return ==
  /\ epc = "return"
  /\ passLog' = Append(passLog, "finalized")
  /\ epc' = "done"
  /\ UNCHANGED <<params, hfData, initialData, iterations, waterFeatures, passMask,
                 passDeposition, totalErosionMask, totalDepositionMask, iter, done,
                 gridVars, hydroVars, pipeVars, wasmVars>>

EroNext ==
  \/ Base
  \/ WindStart \/ WindSkip \/ WindIteration \/ WindEnd
  \/ ThermalStart \/ ThermalSkip \/ ThermalIteration \/ ThermalEnd
  \/ HydraulicReflow \/ HydraulicStart \/ HydraulicSkip \/ HydraulicIteration \/ HydraulicEnd
  \/ Return

SpecErosion == EroInit /\ [][EroNext]_vars

(***************************************************************************)
(* The WaterSystem functions on their own arguments.                       *)
(***************************************************************************)
HydroField(a, b, c) ==
  [i \in 0..(GridSize * GridSize - 1) |->
     (((a * (i % GridSize) + b * (i \div GridSize) + c * (i % GridSize) * (i \div GridSize)) % 4)
        - 1) * (Q \div 2)]
HydroFlow(m) ==
  [i \in 0..(GridSize * GridSize - 1) |-> ((m * (i + 1) * (i + 1) + i) % 7) * m * Q]

\* The monotonic ramp H(x, y) = y / (N - 1)
RampField == [i \in 0..(GridSize * GridSize - 1) |-> ((i \div GridSize) * Q) \div (GridSize - 1)]

HydroInit ==
  /\ hIn \in [data : { HydroField(a, b, c) : a, b, c \in 0..MaxCoef } \cup {RampField},
              flow : { HydroFlow(m) : m \in 0..MaxCoef },
              threshold : {0, K0_08, K0_5, Q - 1, Q, Q + 1},
              seaLevel : {0, K0_5},
              beachWidth : {Q, K1_5, 8 * Q}]
  /\ hOut = <<>>
  /\ hpc = "call"
  /\ GridIdle /\ EroIdle /\ PipeIdle /\ WasmIdle

\* A function is called once per value of its own arguments: the fields of
\* hIn it does not take are then at these values.
HydroUnused == [data |-> HydroField(0, 0, 0), flow |-> HydroFlow(0), threshold |-> 0,
                seaLevel |-> 0, beachWidth |-> Q]
NotTaken(fields) == \A f \in fields : hIn[f] = HydroUnused[f]

\* calculateFlowAccumulation(heightField) returns.
FlowReturns ==
  /\ hpc = "call"
  /\ NotTaken({"flow", "threshold", "seaLevel", "beachWidth"})
  /\ hOut' = calculateFlowAccumulation(hIn.data, GridSize)
  /\ hpc' = "flow"
  /\ UNCHANGED <<hIn, gridVars, eroVars, pipeVars, wasmVars>>

\* generateRiverMask(heightField, flowAccumulation, threshold) returns.
RiverReturns ==
  /\ hpc = "call"
  /\ NotTaken({"data", "seaLevel", "beachWidth"})
  /\ hOut' = generateRiverMask(GridSize, hIn.flow, hIn.threshold)
  /\ hpc' = "river"
  /\ UNCHANGED <<hIn, gridVars, eroVars, pipeVars, wasmVars>>

\* generateBeachMask(heightField, seaLevel, beachWidth) returns.
BeachReturns ==
  /\ hpc = "call"
  /\ NotTaken({"flow", "threshold"})
  /\ hOut' = generateBeachMask(hIn.data, GridSize, hIn.seaLevel, hIn.beachWidth)
  /\ hpc' = "beach"
  /\ UNCHANGED <<hIn, gridVars, eroVars, pipeVars, wasmVars>>

\* The water-mask loop of applyGeologicalErosion over these heights and
\* the river mask of this flow.
WaterMaskBuilt ==
  /\ hpc = "call"
  /\ NotTaken({"beachWidth"})
  /\ hOut' = BuildWaterMask(hIn.data, hIn.seaLevel,
                            generateRiverMask(GridSize, hIn.flow, hIn.threshold))
  /\ hpc' = "water"
  /\ UNCHANGED <<hIn, gridVars, eroVars, pipeVars, wasmVars>>

\* The sum of f over the finite set S
RECURSIVE SumOver(_, _)
SumOver(f, S) ==
  IF S = {} THEN 0 ELSE LET q == CHOOSE q \in S : TRUE IN f[q] + SumOver(f, S \ {q})


\* carveRivers, first pass (WaterSystem.ts lines 201-314).
\* Lines 217-227: the average absolute difference to the 8 clamped
\* neighbours.
CarveSlope(data, size, idx) ==
  LET x == idx % size
      y == idx \div size
      D == { <<dx, dy>> \in (-1..1) \X (-1..1) : ~(dx = 0 /\ dy = 0) }
  IN SumOver([d \in D |-> Abs(data[idx] - HFGet(data, size, x + d[1], y + d[2]))], D) \div 8

\* Lines 230-234: hardness = min(1, slope * 3 + max(0, h + 0.3) * 0.4)
Hardness(data, size, idx) ==
  Min(Q, Mul(CarveSlope(data, size, idx), 3 * Q)
         + Mul(Max(0, data[idx] + K0_3), (4 * Q) \div 10))

\* Lines 250-265: the profile of a river cell, with its width and depth.
ProfileOf(terrainHardness) ==
  IF terrainHardness > K0_7 THEN "canyon"
  ELSE IF terrainHardness > (4 * Q) \div 10 THEN "normal" ELSE "broad"
CarveWidthOf(profile, width) ==
  IF profile = "canyon" THEN Mul(width, K0_3)
  ELSE IF profile = "normal" THEN Mul(width, K0_7) ELSE Mul(width, (18 * Q) \div 10)
CarveDepthOf(profile, depth) ==
  IF profile = "canyon" THEN Mul(depth, 2 * Q)
  ELSE IF profile = "normal" THEN Mul(depth, (12 * Q) \div 10) ELSE Mul(depth, (4 * Q) \div 10)
\* Line 267: carveRadius = Math.ceil(carveWidth / 2)
CarveRadiusOf(carveWidth) == CeilDiv(carveWidth, 2 * Q)

\* Math.sqrt of a fixed-point value
SqrtFixed(v) == SqrtSearch(v * Q, 0, Min(46000, v + Q))
\* Math.cos(nd * PI / 2) for nd in [0, 1], by its series up to t^8
CosHalfPi(nd) ==
  LET t == Mul(nd, (15708 * Q) \div 10000)
      t2 == Mul(t, t)
      t4 == Mul(t2, t2)
      t6 == Mul(t4, t2)
      t8 == Mul(t4, t4)
  IN Q - (t2 \div 2) + (t4 \div 24) - (t6 \div 720) + (t8 \div 40320)

\* Lines 281-296: the erosion curve of a profile at squared distance d2.
ErosionCurve(profile, d2, carveRadius) ==
  LET normalizedDist == Div(Sqrt(d2), carveRadius * Q)
  IN IF profile = "canyon" THEN Max(0, Q - Mul(normalizedDist, normalizedDist))
     ELSE IF profile = "broad" THEN Max(0, CosHalfPi(normalizedDist))
     ELSE Max(0, Q - Mul(normalizedDist, SqrtFixed(normalizedDist)))

\* Lines 298-307 at one cell of the window: the height moves 70% of the way
\* to the target.
CarveUpdate(currentHeight, centreHeight, riverStrength, carveDepth, erosionCurve) ==
  LET maxErosion == Mul(Mul(carveDepth, riverStrength), erosionCurve)
      riverLevel == centreHeight - Mul(carveDepth, riverStrength)
      targetHeight == Max(riverLevel, currentHeight - maxErosion)
  IN [before |-> currentHeight, target |-> targetHeight, riverLevel |-> riverLevel,
      after |-> currentHeight + Mul(targetHeight - currentHeight, K0_7)]

\* Line 307 over a window: data[nIdx] is written for each of its cells.
RECURSIVE WriteWindow(_, _, _)
WriteWindow(data, upd, cells) ==
  IF cells = {} THEN data
  ELSE LET n == CHOOSE n \in cells : TRUE
       IN WriteWindow([data EXCEPT ![n] = upd[n].after], upd, cells \ {n})

\* Lines 269-311: the window of one river cell, written in place.  The dy
\* and dx loops visit the window in row-major order, each cell once, and
\* read data[idx] anew each time: the cells after the centre see the
\* centre's carved height.  st.log keeps each update made.
CarveAround(st, size, idx, riverStrength, carveDepth, profile, carveRadius) ==
  LET x == idx % size
      y == idx \div size
      d2(n) == ((n % size) - x) * ((n % size) - x) + ((n \div size) - y) * ((n \div size) - y)
      window == { n \in DOMAIN st.data :
                    /\ Abs((n % size) - x) <= carveRadius
                    /\ Abs((n \div size) - y) <= carveRadius
                    /\ d2(n) <= carveRadius * carveRadius }
      centre == CarveUpdate(st.data[idx], st.data[idx], riverStrength, carveDepth,
                            ErosionCurve(profile, 0, carveRadius))
      upd == [n \in window |->
                IF n = idx THEN centre
                ELSE CarveUpdate(st.data[n], IF n < idx THEN st.data[idx] ELSE centre.after,
                                 riverStrength, carveDepth,
                                 ErosionCurve(profile, d2(n), carveRadius))]
  IN [data |-> WriteWindow(st.data, upd, window),
      log |-> st.log \cup { upd[n] : n \in window }]

\* Lines 238-314: the cells in row-major order; a cell with riverMask > 0
\* carves its window.
RECURSIVE CarvePass(_, _, _, _, _, _, _)
CarvePass(st, hardness, size, riverMask, depth, width, idx) ==
  IF idx >= size * size THEN st
  ELSE IF riverMask[idx] > 0
       THEN LET profile == ProfileOf(hardness[idx])
            IN CarvePass(CarveAround(st, size, idx, riverMask[idx],
                                     CarveDepthOf(profile, depth), profile,
                                     CarveRadiusOf(CarveWidthOf(profile, width))),
                         hardness, size, riverMask, depth, width, idx + 1)
       ELSE CarvePass(st, hardness, size, riverMask, depth, width, idx + 1)

\* The hardness array first (lines 211-236), then the carving pass.
carveRiversFirstPass(data, size, riverMask, depth, width) ==
  CarvePass([data |-> data, log |-> {}],
            [i \in 0..(size * size - 1) |-> Hardness(data, size, i)],
            size, riverMask, depth, width, 0)

\* The depths and widths carveRivers is called with (riverDepth 0.03 and
\* 0, riverWidth 1 and 2 pixels).
CarveDepths == {0, (3 * Q) \div 100}
CarveWidths == {Q, 2 * Q}

\* carveRivers(heightField, riverMask, depth, width) has run its carving
\* pass, on the river mask of this flow as applyWaterSystem calls it.
CarveReturns ==
  /\ hpc = "call"
  /\ NotTaken({"seaLevel", "beachWidth"})
  /\ \E depth \in CarveDepths, width \in CarveWidths :
       LET riverMask == generateRiverMask(GridSize, hIn.flow, hIn.threshold)
       IN hOut' = [depth |-> depth, width |-> width, riverMask |-> riverMask,
                   carved |-> carveRiversFirstPass(hIn.data, GridSize, riverMask,
                                                   depth, width)]
  /\ hpc' = "carve"
  /\ UNCHANGED <<hIn, gridVars, eroVars, pipeVars, wasmVars>>

HydroNext == FlowReturns \/ RiverReturns \/ BeachReturns \/ WaterMaskBuilt \/ CarveReturns

SpecHydro == HydroInit /\ [][HydroNext]_vars

(***************************************************************************)
(* The generate entry points and generateTerrain: which stages run, on     *)
(* what sizes and with what parameters.  Heights are not carried here.     *)
(***************************************************************************)
GenMaxRows == 2
GenMaxCols == 3
DefaultBaseSize == 64
DefaultSeaLevel == 23
DefaultErosionYears == 2500
FbmReferenceSize == 512

\* opt ?? dflt
Coalesce(opt, dflt) == IF opt = {} THEN dflt ELSE CHOOSE v \in opt : TRUE

\* Math.ceil(Math.log2(m / base)) for m > 0, base > 0: the least k with
\* 2^k >= m / base, negative when m < base.
RECURSIVE CeilLog2(_, _)
CeilLog2(m, base) ==
  IF m > base THEN CeilLog2(m, 2 * base) + 1
  ELSE IF 2 * m <= base THEN CeilLog2(2 * m, base) - 1
  ELSE 0

\* ContinuousTileGeneration.ts line 29
StepsOf(c) == CeilLog2(ContinuousSize(c), Coalesce(c.baseSize, DefaultBaseSize)) + 1

\* LevelStep.ts: the i-th size yielded, baseSize doubled i times.
RECURSIVE LevelSize(_, _)
LevelSize(base, i) == IF i = 0 THEN base ELSE 2 * LevelSize(base, i - 1)

\* A slip that measures the attenuation from half the reference size.
FbmDivisorHalfReference(size) == Rat(128 + ((FbmReferenceSize \div 2) - size), 128)
\* TerrainPipeline.ts line 39: 1 + (512 - size)/128, as the quotient it is.
FbmDivisor(size) == Rat(128 + (FbmReferenceSize - size), 128)

\* TileStreaming.ts line 117
OverlapRejected(c) == c.overlap <= 0 \/ c.overlap * 2 >= c.tileSize

\* The configs handed to the entry points: valid ones and ones with a zero
\* overlap, a zero row or column count, or an overlap of half the tile.
GenShapes == { <<512, 32>>, <<8, 2>>, <<8, 1>>, <<8, 0>>, <<8, 4>> }
GenConfigs ==
  { c \in [rows : 0..GenMaxRows, cols : 0..GenMaxCols,
           tileSize : { sh[1] : sh \in GenShapes }, overlap : { sh[2] : sh \in GenShapes },
           seed : {1337}, baseSize : {{}, {64}, {5}}, steps : {{}, {4}},
           seaLevel : {{}, {50}}, erosionYears : {{}, {0}, {5000}},
           blendSeams : BOOLEAN] :
      /\ <<c.tileSize, c.overlap>> \in GenShapes
      /\ ContinuousSize(c) > 0 }

GenInit ==
  /\ gcfg \in GenConfigs
  /\ entryPoint \in {"continuous", "legacy"}
  /\ opts = NoOptions /\ hSize = 0
  /\ levelLog = <<>> /\ stageLog = <<>> /\ erosionRun = NoErosionRun
  /\ genResult = NothingProduced /\ thrown = "none" /\ blendWeights = <<>> /\ ppc = "entry"
  /\ GridIdle /\ EroIdle /\ HydroIdle /\ WasmIdle

\* TileStreaming.ts lines 115-123: generateTileGrid checks the overlap, then
\* allocates the atlas.
LegacyEntry ==
  /\ ppc = "entry" /\ entryPoint = "legacy"
  /\ IF OverlapRejected(gcfg)
     THEN /\ thrown' = "Error" /\ ppc' = "threw"
          /\ UNCHANGED genResult
     ELSE /\ genResult' = [genResult EXCEPT !.produced = {"atlas"},
                                            !.innerSize = Inner(gcfg),
                                            !.atlasW = AtlasW(gcfg), !.atlasH = AtlasH(gcfg),
                                            !.atlasLength = AtlasW(gcfg) * AtlasH(gcfg)]
          /\ ppc' = "legacyTiles"
          /\ UNCHANGED thrown
  /\ UNCHANGED <<gcfg, entryPoint, blendWeights, opts, hSize, levelLog, stageLog, erosionRun,
                 gridVars, eroVars, hydroVars, wasmVars>>

\* ContinuousTileGeneration.ts lines 16-32: the sizes, then the call of
\* generateTerrain with baseSize, steps, seed and biome only.
ContinuousEntry ==
  /\ ppc = "entry" /\ entryPoint = "continuous"
  /\ opts' = [baseSize |-> {Coalesce(gcfg.baseSize, DefaultBaseSize)},
              steps |-> StepsOf(gcfg), seed |-> gcfg.seed, biome |-> "temperate",
              seaLevel |-> {}, erosionYears |-> {}]
  /\ ppc' = "terrain"
  /\ UNCHANGED <<gcfg, entryPoint, blendWeights, hSize, levelLog, stageLog, erosionRun, genResult, thrown,
                 gridVars, eroVars, hydroVars, wasmVars>>

\* TerrainPipeline.ts lines 26-34: the defaults and the base heightfield.
TerrainStart ==
  /\ ppc = "terrain"
  /\ hSize' = Coalesce(opts.baseSize, DefaultBaseSize)
  /\ stageLog' = Append(stageLog, "pyramid")
  /\ ppc' = "levels"
  /\ UNCHANGED <<gcfg, entryPoint, blendWeights, opts, levelLog, erosionRun, genResult, thrown,
                 gridVars, eroVars, hydroVars, wasmVars>>

\* TerrainPipeline.ts lines 35-42: one level, resampled and filtered.
PyramidLevel ==
  /\ ppc = "levels" /\ Len(levelLog) < opts.steps
  /\ LET size == LevelSize(Coalesce(opts.baseSize, DefaultBaseSize), Len(levelLog))
     IN /\ hSize' = size
        /\ levelLog' = Append(levelLog, [size |-> size, divisor |-> FbmDivisor(size)])
  /\ UNCHANGED <<gcfg, entryPoint, blendWeights, opts, stageLog, erosionRun, genResult, thrown, ppc,
                 gridVars, eroVars, hydroVars, wasmVars>>

\* TerrainPipeline.ts line 43
RidgeSharpen ==
  /\ ppc = "levels" /\ ~(Len(levelLog) < opts.steps)
  /\ stageLog' = Append(stageLog, "ridgeSharpen")
  /\ ppc' = "erosionCall"
  /\ UNCHANGED <<gcfg, entryPoint, blendWeights, opts, hSize, levelLog, erosionRun, genResult, thrown,
                 gridVars, eroVars, hydroVars, wasmVars>>

\* The ErosionParams of TerrainPipeline.ts lines 48-54 (temperate biome),
\* in fixed point.
ErosionParamsOf(o) ==
  [timeYears |-> Coalesce(o.erosionYears, DefaultErosionYears) * Q,
   seaLevel |-> Coalesce(o.seaLevel, DefaultSeaLevel) * Q,
   rainIntensity |-> Q,
   temperatureCycles |-> 25 * Q]

\* TerrainPipeline.ts lines 48-56 and GeologicalErosion.ts lines 190-195
ErosionCall ==
  /\ ppc = "erosionCall"
  /\ erosionRun' = [params |-> ErosionParamsOf(opts),
                    iterations |-> [wind |-> windIterationsOf(ErosionParamsOf(opts)),
                                    thermal |-> thermalIterationsOf(ErosionParamsOf(opts)),
                                    hydraulic |-> hydraulicIterationsOf(ErosionParamsOf(opts))]]
  /\ ppc' = "erosionBase"
  /\ UNCHANGED <<gcfg, entryPoint, blendWeights, opts, hSize, levelLog, stageLog, genResult, thrown,
                 gridVars, eroVars, hydroVars, wasmVars>>

\* GeologicalErosion.ts lines 198-219: flow, then the masks, of size h.size^2.
ErosionBase ==
  /\ ppc = "erosionBase"
  /\ stageLog' = stageLog \o <<"flow", "masks">>
  /\ genResult' = [genResult EXCEPT !.maskLength = hSize * hSize]
  /\ ppc' = "erosionPasses"
  /\ UNCHANGED <<gcfg, entryPoint, blendWeights, opts, hSize, levelLog, erosionRun, thrown,
                 gridVars, eroVars, hydroVars, wasmVars>>

\* GeologicalErosion.ts lines 221-275 and TerrainPipeline.ts lines 59-63
ErosionPasses ==
  /\ ppc = "erosionPasses"
  /\ stageLog' = Append(stageLog, "erosion")
  /\ ppc' = "resample"
  /\ UNCHANGED <<gcfg, entryPoint, blendWeights, opts, hSize, levelLog, erosionRun, genResult, thrown,
                 gridVars, eroVars, hydroVars, wasmVars>>

\* ContinuousTileGeneration.ts line 35
ResampleContinuous ==
  /\ ppc = "resample"
  /\ genResult' = [genResult EXCEPT !.continuousSize = ContinuousSize(gcfg)]
  /\ stageLog' = Append(stageLog, "resample")
  /\ ppc' = "tiles"
  /\ UNCHANGED <<gcfg, entryPoint, blendWeights, opts, hSize, levelLog, erosionRun, thrown,
                 gridVars, eroVars, hydroVars, wasmVars>>

\* ContinuousTileGeneration.ts lines 37-82: the tiles, then the atlas.
TilesAndAtlas ==
  /\ ppc = "tiles"
  /\ genResult' = [genResult EXCEPT !.produced = @ \cup {"tiles", "atlas"},
                                    !.tiles = gcfg.rows * gcfg.cols,
                                    !.innerSize = Inner(gcfg),
                                    !.atlasW = AtlasW(gcfg), !.atlasH = AtlasH(gcfg),
                                    !.atlasLength = AtlasW(gcfg) * AtlasH(gcfg)]
  /\ stageLog' = stageLog \o <<"tiles", "atlas">>
  /\ ppc' = "rects"
  /\ UNCHANGED <<gcfg, entryPoint, blendWeights, opts, hSize, levelLog, erosionRun, thrown,
                 gridVars, eroVars, hydroVars, wasmVars>>

\* ContinuousTileGeneration.ts lines 84-105: the rects and the returned
\* object, waterFeatures being generateTerrain's own.
RectsAndReturn ==
  /\ ppc = "rects"
  /\ genResult' = [genResult EXCEPT !.produced = @ \cup {"rects", "waterFeatures"},
                                    !.rects = gcfg.rows * gcfg.cols]
  /\ stageLog' = Append(stageLog, "rects")
  /\ ppc' = "done"
  /\ UNCHANGED <<gcfg, entryPoint, blendWeights, opts, hSize, levelLog, erosionRun, thrown,
                 gridVars, eroVars, hydroVars, wasmVars>>

\* TileStreaming.ts lines 125-148: the tiles, generated one by one and
\* normalised together.
LegacyTiles ==
  /\ ppc = "legacyTiles"
  /\ genResult' = [genResult EXCEPT !.produced = @ \cup {"tiles"},
                                    !.tiles = gcfg.rows * gcfg.cols]
  /\ ppc' = "legacyBlend"
  /\ UNCHANGED <<gcfg, entryPoint, blendWeights, opts, hSize, levelLog, stageLog, erosionRun,
                 thrown, gridVars, eroVars, hydroVars, wasmVars>>

\* TileStreaming.ts lines 159 and 177: wA = 1 - k / (O - 1), as the
\* quotient ((O - 1) - k) / (O - 1).
BlendWeightA(O, k) == Rat((O - 1) - k, O - 1)
\* Lines 160 and 178: wB = 1 - wA
BlendWeightB(O, k) == Rat(BlendWeightA(O, k)[2] - BlendWeightA(O, k)[1], BlendWeightA(O, k)[2])

\* Lines 150-188: with blendSeams set and a seam to blend, the weights of
\* k = 0 .. O-1 are formed.
SeamBlend ==
  /\ ppc = "legacyBlend"
  /\ blendWeights' =
       IF gcfg.blendSeams /\ (gcfg.cols >= 2 \/ gcfg.rows >= 2) /\ gcfg.rows * gcfg.cols >= 2
       THEN [j \in 1..gcfg.overlap |->
               [wA |-> BlendWeightA(gcfg.overlap, j - 1),
                wB |-> BlendWeightB(gcfg.overlap, j - 1)]]
       ELSE <<>>
  /\ ppc' = "legacyAtlas"
  /\ UNCHANGED <<gcfg, entryPoint, opts, hSize, levelLog, stageLog, erosionRun, genResult,
                 thrown, gridVars, eroVars, hydroVars, wasmVars>>

\* Lines 190-228: the atlas written, the rects, the returned grid.
LegacyAtlasAndRects ==
  /\ ppc = "legacyAtlas"
  /\ genResult' = [genResult EXCEPT !.produced = @ \cup {"rects"},
                                    !.rects = gcfg.rows * gcfg.cols]
  /\ ppc' = "done"
  /\ UNCHANGED <<gcfg, entryPoint, blendWeights, opts, hSize, levelLog, stageLog, erosionRun,
                 thrown, gridVars, eroVars, hydroVars, wasmVars>>

GenNext ==
  \/ LegacyEntry \/ LegacyTiles \/ SeamBlend \/ LegacyAtlasAndRects
  \/ ContinuousEntry
  \/ TerrainStart \/ PyramidLevel \/ RidgeSharpen
  \/ ErosionCall \/ ErosionBase \/ ErosionPasses
  \/ ResampleContinuous \/ TilesAndAtlas \/ RectsAndReturn

SpecGenerate == GenInit /\ [][GenNext]_vars

(***************************************************************************)
(* Claims about generateContinuousTileGrid (checked under SpecGrid).       *)
(***************************************************************************)

\* C1: in every returned grid, for every pair of grid-adjacent tiles the
\* values along the shared inner edge are equal: the right inner column of
\* tile (r,c) equals the left inner column of tile (r,c+1), and the bottom
\* inner row of (r,c) equals the top inner row of (r+1,c).
C1_SharedInnerEdgeEqual ==
  gpc = "done" =>
    /\ \A r \in 0..(cfg.rows - 1), c \in 0..(cfg.cols - 2), y \in 0..(Inner(cfg) - 1) :
         TileGet(r, c, cfg.overlap + Inner(cfg) - 1, cfg.overlap + y)
           = TileGet(r, c + 1, cfg.overlap, cfg.overlap + y)
    /\ \A r \in 0..(cfg.rows - 2), c \in 0..(cfg.cols - 1), x \in 0..(Inner(cfg) - 1) :
         TileGet(r, c, cfg.overlap + x, cfg.overlap + Inner(cfg) - 1)
           = TileGet(r + 1, c, cfg.overlap + x, cfg.overlap)

\* C2: in the returned grid the atlas cell at column c*inner+x, row
\* r*inner+y equals tile(r,c).get(x+O, y+O), which equals the continuous
\* field at (c*inner+x+O, r*inner+y+O); every atlas cell is written exactly
\* once.
C2_AtlasIsWindowOfField ==
  gpc = "done" =>
    /\ \A r \in 0..(cfg.rows - 1), c \in 0..(cfg.cols - 1),
          x \in 0..(Inner(cfg) - 1), y \in 0..(Inner(cfg) - 1) :
         LET ai == (r * Inner(cfg) + y) * AtlasW(cfg) + c * Inner(cfg) + x
         IN /\ ai \in DOMAIN atlas
            /\ atlas[ai] = TileGet(r, c, x + cfg.overlap, y + cfg.overlap)
            /\ atlas[ai] = continuous[(r * Inner(cfg) + y + cfg.overlap) * ContinuousSize(cfg)
                                       + c * Inner(cfg) + x + cfg.overlap]
    /\ \A i \in DOMAIN atlasWrites : atlasWrites[i] = 1

C2_Witness ==
  /\ gpc = "done"
  /\ cfg.rows = 2 /\ cfg.cols = 2 /\ Inner(cfg) = 2
  /\ \E i, j \in DOMAIN atlas : atlas[i] # atlas[j]

\* C3: exactly rows*cols rectangles are returned, in row-major order, with
\* rect(r,c) = (c/cols, r/rows, (c+1)/cols, (r+1)/rows); neighbours share
\* their common side, the outer sides are 0 and 1, and a 1x1 grid yields
\* (0,0,1,1).
C3_RectsTileUnitSquare ==
  gpc = "done" =>
    /\ Len(rects) = cfg.rows * cfg.cols
    /\ \A r \in 0..(cfg.rows - 1), c \in 0..(cfg.cols - 1) :
         LET q == rects[r * cfg.cols + c + 1]
         IN /\ RatEq(q.u0, Rat(c, cfg.cols))
            /\ RatEq(q.v0, Rat(r, cfg.rows))
            /\ RatEq(q.u1, Rat(c + 1, cfg.cols))
            /\ RatEq(q.v1, Rat(r + 1, cfg.rows))
            /\ c + 1 < cfg.cols => RatEq(q.u1, rects[r * cfg.cols + c + 2].u0)
            /\ r + 1 < cfg.rows => RatEq(q.v1, rects[(r + 1) * cfg.cols + c + 1].v0)
            /\ c = 0 => RatEq(q.u0, Rat(0, 1))
            /\ r = 0 => RatEq(q.v0, Rat(0, 1))
            /\ c = cfg.cols - 1 => RatEq(q.u1, Rat(1, 1))
            /\ r = cfg.rows - 1 => RatEq(q.v1, Rat(1, 1))
    /\ (cfg.rows = 1 /\ cfg.cols = 1) =>
         /\ Len(rects) = 1
         /\ RatEq(rects[1].u0, Rat(0, 1)) /\ RatEq(rects[1].v0, Rat(0, 1))
         /\ RatEq(rects[1].u1, Rat(1, 1)) /\ RatEq(rects[1].v1, Rat(1, 1))

C3_Witness ==
  /\ gpc = "done"
  /\ cfg.rows = 2 /\ cfg.cols = 1
  /\ Len(rects) = 2

(***************************************************************************)
(* Claims about the WaterSystem functions (checked under SpecHydro).       *)
(***************************************************************************)

\* C4: every cell of the array calculateFlowAccumulation returns for a valid
\* heightfield is >= 1.
C4_FlowAtLeastOne ==
  hpc = "flow" => \A i \in DOMAIN hOut : hOut[i] >= Q

C4_Witness ==
  /\ hpc = "flow"
  /\ \E i \in DOMAIN hOut : hOut[i] >= 3 * Q
  /\ \E i \in DOMAIN hOut : hOut[i] = Q

\* C5: every element of the river mask (after dilation), of the beach mask
\* and of the water mask lies in [0, 1], for flows >= 0, thresholds in
\* [0, 1] and beach widths >= 1.
C5_MasksInUnitInterval ==
  hpc \in {"river", "beach", "water"} =>
    \A i \in DOMAIN hOut : hOut[i] >= 0 /\ hOut[i] <= Q

C5_Witness ==
  /\ hpc = "water"
  /\ \E i \in DOMAIN hOut : hOut[i] > 0 /\ hOut[i] < Q
  /\ \E i \in DOMAIN hOut : hOut[i] = Q /\ hIn.data[i] <= hIn.seaLevel
  /\ \E i \in DOMAIN hOut : hOut[i] = 0

(***************************************************************************)
(* Claims about applyGeologicalErosion (checked under SpecErosion).        *)
(***************************************************************************)

\* C6: in the returned WaterFeatures, riverMask(p) > 0 implies
\* waterMask(p) > 0, also when the hydraulic branch is skipped.
C6_RiverImpliesWater ==
  epc = "done" =>
    \A i \in DOMAIN waterFeatures.riverMask :
      waterFeatures.riverMask[i] > 0 => waterFeatures.waterMask[i] > 0

C6_Witness ==
  /\ epc = "done"
  /\ params.rainIntensity > 0
  /\ hfData # initialData
  /\ \E i \in DOMAIN hfData :
       /\ hfData[i] > SeaLevelUnits(params)
       /\ waterFeatures.riverMask[i] > 0

\* C7: for every combination of strengths, the returned waterMask is
\* computed from the final heights:
\* waterMask(p) = max([Hfinal(p) <= seaLevel], riverMask(p)).
C7_WaterMaskFromFinalHeights ==
  epc = "done" =>
    \A i \in DOMAIN hfData :
      waterFeatures.waterMask[i]
        = Max(IF hfData[i] <= SeaLevelUnits(params) THEN Q ELSE 0,
              waterFeatures.riverMask[i])

\* C8: after applyGeologicalErosion every height is >= 0, for any input
\* whose heights are all >= 0.
C8_HeightsNonNegative ==
  (epc = "done" /\ \A i \in DOMAIN initialData : initialData[i] >= 0) =>
    \A i \in DOMAIN hfData : hfData[i] >= 0

\* C9: the passes follow base -> wind -> thermal -> hydraulic (with
\* reflow) -> finalized, each at most once and never out of order; a pass
\* runs iff its strength is > 0; flow and river mask are recomputed after
\* the thermal pass and before the first hydraulic iteration.
ExpectedPasses(p) ==
  <<"base">>
    \o (IF p.windStrength > 0 THEN <<"wind">> ELSE <<>>)
    \o (IF p.temperatureCycles > 0 THEN <<"thermal">> ELSE <<>>)
    \o (IF p.rainIntensity > 0 THEN <<"reflow", "hydraulic">> ELSE <<>>)
    \o <<"finalized">>
IsPrefix(a, b) == Len(a) <= Len(b) /\ \A i \in 1..Len(a) : a[i] = b[i]
C9_PassOrder ==
  epc # "idle" =>
    /\ IsPrefix(passLog, ExpectedPasses(params))
    /\ epc = "done" => passLog = ExpectedPasses(params)
    /\ done.wind > 0 => params.windStrength > 0
    /\ done.thermal > 0 => params.temperatureCycles > 0
    /\ done.hydraulic > 0 => params.rainIntensity > 0
    /\ epc = "hydraulicCall" =>
         /\ done.hydraulic = 0
         /\ params.windStrength > 0 => done.wind = iterations.wind
         /\ params.temperatureCycles > 0 => done.thermal = iterations.thermal
         /\ waterFeatures.flowAccumulation = calculateFlowAccumulation(hfData, GridSize)
         /\ waterFeatures.riverMask
              = generateRiverMask(GridSize, waterFeatures.flowAccumulation, K0_08)
    /\ epc = "hydraulic" => passLog[Len(passLog) - 1] = "reflow"

C9_Witness ==
  /\ epc = "done"
  /\ passLog = <<"base", "wind", "thermal", "reflow", "hydraulic", "finalized">>
  /\ done.wind > 0 /\ done.thermal > 0 /\ done.hydraulic > 0
  /\ hfData # initialData

\* C10: for timeYears >= 0 the passes that are not skipped run exactly
\* ceil(timeYears/100) wind, ceil(timeYears/50) thermal and
\* ceil(timeYears/25) hydraulic iterations; 5000 years give 100 thermal
\* iterations.
IsCeilOf(n, years, per) == n * per * Q >= years /\ (n - 1) * per * Q < years
C10_IterationBudget ==
  epc = "done" =>
    /\ params.windStrength > 0 => IsCeilOf(done.wind, params.timeYears, 100)
    /\ params.temperatureCycles > 0 => IsCeilOf(done.thermal, params.timeYears, 50)
    /\ params.rainIntensity > 0 => IsCeilOf(done.hydraulic, params.timeYears, 25)
    /\ (params.timeYears = 5000 * Q /\ params.temperatureCycles > 0) => done.thermal = 100

C10_Witness ==
  /\ epc = "done"
  /\ params.timeYears = 5000 * Q
  /\ done.thermal = 100
  /\ done.wind = 50

\* C11: with timeYears = 0 applyGeologicalErosion leaves every cell of the
\* heightfield unchanged and returns an erosionMask and a depositionMask
\* that are all zeros, whatever windStrength, temperatureCycles,
\* rainIntensity and seaLevel are.
C11_ZeroTimeIsIdentity ==
  (epc = "done" /\ params.timeYears = 0) =>
    /\ hfData = initialData
    /\ totalErosionMask = Zeros(GridSize * GridSize)
    /\ totalDepositionMask = Zeros(GridSize * GridSize)

C11_Witness ==
  /\ epc = "done" /\ params.timeYears = 0
  /\ params.windStrength > 0 /\ params.temperatureCycles > 0 /\ params.rainIntensity > 0
  /\ params.seaLevel > 0
  /\ passLog = <<"base", "wind", "thermal", "reflow", "hydraulic", "finalized">>
  /\ \E i, j \in DOMAIN hfData : hfData[i] # hfData[j]

(***************************************************************************)
(* Further claims about the WaterSystem functions (under SpecHydro).       *)
(***************************************************************************)

\* C15 as stated: on the ramp H(x,y) = y/(N-1) the flow accumulation
\* increases strictly along +y in every column, F(x,y+1) > F(x,y), and the
\* maximum of the last row y = N-1 equals N.
C15_RampFlowIncreasesWithY ==
  (hpc = "flow" /\ hIn.data = RampField) =>
    /\ \A x \in 0..(GridSize - 1), y \in 0..(GridSize - 2) :
         hOut[(y + 1) * GridSize + x] > hOut[y * GridSize + x]
    /\ \E x \in 0..(GridSize - 1) : hOut[(GridSize - 1) * GridSize + x] = GridSize * Q
    /\ \A x \in 0..(GridSize - 1) : hOut[(GridSize - 1) * GridSize + x] <= GridSize * Q

\* C15 amended: on that ramp the flow runs downhill, towards y = 0:
\* F(x,y) = N - y in every column, so F decreases strictly along +y, the
\* first row y = 0 holds the maximum N and the last row is all 1.
C15_RampFlowDecreasesWithY ==
  (hpc = "flow" /\ hIn.data = RampField) =>
    /\ \A x \in 0..(GridSize - 1), y \in 0..(GridSize - 1) :
         hOut[y * GridSize + x] = (GridSize - y) * Q
    /\ \A x \in 0..(GridSize - 1), y \in 0..(GridSize - 2) :
         hOut[(y + 1) * GridSize + x] < hOut[y * GridSize + x]

C15_Witness ==
  /\ hpc = "flow" /\ hIn.data = RampField
  /\ hOut[0] = GridSize * Q
  /\ hOut[GridSize * GridSize - 1] = Q

\* C16 as stated: for a flow field with F_max > 0, a threshold just above
\* 1 yields a river mask that is zero in every cell, and a threshold just
\* below 1 yields one with at least one non-zero cell.
C16_ThresholdEdgeAllZero ==
  (hpc = "river" /\ ArrayMax(hIn.flow, 0, 0) > 0) =>
    /\ hIn.threshold = Q + 1 => \A i \in DOMAIN hOut : hOut[i] = 0
    /\ hIn.threshold = Q - 1 => \E i \in DOMAIN hOut : hOut[i] # 0

\* C16 amended: for F_max > 0 a threshold just above 1 leaves no
\* full-strength river, every cell being at most 0.3, but the cells of
\* maximal flow fall in the tributary band and are non-zero, so the mask is
\* not all zero; a threshold just below 1 gives the cells of maximal flow
\* the value 1.
C16_ThresholdEdgeTributary ==
  (hpc = "river" /\ ArrayMax(hIn.flow, 0, 0) > 0) =>
    /\ hIn.threshold = Q + 1 =>
         /\ \A i \in DOMAIN hOut : hOut[i] >= 0 /\ hOut[i] <= K0_3
         /\ \A i \in DOMAIN hOut :
              hIn.flow[i] = ArrayMax(hIn.flow, 0, 0) => hOut[i] > 0
    /\ hIn.threshold = Q - 1 =>
         \A i \in DOMAIN hOut :
           hIn.flow[i] = ArrayMax(hIn.flow, 0, 0) => hOut[i] = Q

C16_Witness ==
  /\ hpc = "river" /\ hIn.threshold = Q + 1
  /\ ArrayMax(hIn.flow, 0, 0) > 0
  /\ \E i \in DOMAIN hOut : hOut[i] > 0
  /\ \E i \in DOMAIN hOut : hOut[i] = 0

\* C19: calculateFlowAccumulation processes the cells in descending
\* height, equal heights in ascending (y,x) order (ascending index), each
\* cell once; its output is a function of the heights alone: a second run
\* on the same heights returns the same array, and so does a run that
\* takes equal heights in the opposite order.
TiesDescendingOrder(data) ==
  [k \in 1..Cardinality(DOMAIN data) |->
     CHOOSE i \in DOMAIN data :
       Cardinality({j \in DOMAIN data :
                      data[j] > data[i] \/ (data[j] = data[i] /\ j > i)}) = k - 1]
NeighbourCells(size, q) ==
  { n \in 0..(size * size - 1) :
      /\ n # q
      /\ Abs((n % size) - (q % size)) <= 1
      /\ Abs((n \div size) - (q \div size)) <= 1 }
Dist2(size, q, n) ==
  ((n % size) - (q % size)) * ((n % size) - (q % size))
    + ((n \div size) - (q \div size)) * ((n \div size) - (q \div size))

\* C22: after calculateFlowAccumulation, for every cell p, F(p) = 1 + the
\* sum of the final F(q) over the cells q whose D8 target is p; q's target
\* is an in-bounds 8-neighbour of greatest strictly positive slope
\* (H(q)-H(n))/dist; a cell with no strictly lower neighbour has no target;
\* every contributor of p is processed before p.
C22_FlowIsUpstreamSum ==
  hpc = "flow" =>
    LET H == hIn.data
        target == [q \in DOMAIN H |-> FindSteepest(H, GridSize, q, 1, NoTarget).to]
        order == SortedPoints(H)
        pos == [q \in DOMAIN H |-> CHOOSE k \in DOMAIN order : order[k] = q]
    IN \A p \in DOMAIN H :
         /\ hOut[p] = Q + SumOver(hOut, { q \in DOMAIN H : target[q] = p })
         /\ target[p] = -1 <=> \A n \in NeighbourCells(GridSize, p) : H[n] >= H[p]
         /\ target[p] # -1 =>
              /\ target[p] \in NeighbourCells(GridSize, p)
              /\ H[target[p]] < H[p]
              /\ \A n \in NeighbourCells(GridSize, p) :
                   (H[p] - H[n]) * (H[p] - H[n]) * Dist2(GridSize, p, target[p])
                     <= (H[p] - H[target[p]]) * (H[p] - H[target[p]]) * Dist2(GridSize, p, n)
                   \/ H[n] >= H[p]
              /\ pos[p] < pos[target[p]]

C22_Witness ==
  /\ hpc = "flow"
  /\ \E p, q, r \in DOMAIN hOut :
       /\ FindSteepest(hIn.data, GridSize, q, 1, NoTarget).to = p
       /\ FindSteepest(hIn.data, GridSize, r, 1, NoTarget).to = q
       /\ hOut[p] >= 3 * Q
  /\ \E p \in DOMAIN hOut : FindSteepest(hIn.data, GridSize, p, 1, NoTarget).to = -1

\* C23: in generateRiverMask, for every cell p, border cells included,
\* whose pre-dilation value base(p) exceeds 0.5, and every in-bounds
\* neighbour n within distance 1.5, the final mask has
\* riverMask(n) >= base(p) * 0.6 * (1 - dist(p,n)/1.5); and every final
\* value is >= its pre-dilation value.
C23_DilationCoversEveryCell ==
  (hpc = "river" /\ ArrayMax(hIn.flow, 0, 0) > 0) =>
    LET base == [i \in DOMAIN hOut |->
                   RiverBase(hIn.flow[i], ArrayMax(hIn.flow, 0, 0), hIn.threshold)]
    IN /\ \A i \in DOMAIN hOut : hOut[i] >= base[i]
       /\ \A q \in DOMAIN hOut :
            base[q] > K0_5 =>
              \A n \in NeighbourCells(GridSize, q) :
                hOut[n] >= RiverExpansion(base[q], Sqrt(Dist2(GridSize, q, n)))

\* C24: in generateBeachMask with W = ceil(beachWidth), every cell at or
\* below sea level has beach value 1, and every land cell has
\* max(0, 1 - min_dist/W), min_dist being the distance to the nearest water
\* cell inside its (2W+1)x(2W+1) window, or 0 if the window holds no water:
\* whatever the order of the scan.
C24_BeachUsesNearestWater ==
  hpc = "beach" =>
    LET W == CeilDiv(hIn.beachWidth, Q)
        water == { i \in DOMAIN hIn.data : hIn.data[i] <= hIn.seaLevel }
        inWindow(i) ==
          { n \in water : /\ Abs((n % GridSize) - (i % GridSize)) <= W
                          /\ Abs((n \div GridSize) - (i \div GridSize)) <= W }
        minD2(i) ==
          CHOOSE d \in { Dist2(GridSize, i, n) : n \in inWindow(i) } :
            \A n \in inWindow(i) : d <= Dist2(GridSize, i, n)
    IN \A i \in DOMAIN hOut :
         hOut[i] = IF i \in water THEN Q
                   ELSE IF inWindow(i) = {} THEN 0
                   ELSE Max(0, Q - Div(Sqrt(minD2(i)), W * Q))

(***************************************************************************)
(* Claims about the generate entry points (checked under SpecGenerate).    *)
(***************************************************************************)

\* C12: whenever overlap <= 0, 2*overlap >= tileSize, rows <= 0 or
\* cols <= 0, the entry point (generateContinuousTileGrid or the legacy
\* generateTileGrid) reports an error before generating or allocating
\* anything: once past its entry an error has been thrown and no tiles,
\* atlas or rects have been produced.
InvalidConfig(c) ==
  c.overlap <= 0 \/ 2 * c.overlap >= c.tileSize \/ c.rows <= 0 \/ c.cols <= 0
C12_ConfigErrorBeforeAllocation ==
  (ppc \notin {"idle", "entry"} /\ InvalidConfig(gcfg)) =>
    /\ thrown # "none"
    /\ genResult.produced = {}
    /\ stageLog = <<>>

\* C13: every run of generateContinuousTileGrid executes pyramid, flow
\* accumulation, masks, river carving, erosion, tile extraction and atlas
\* packing in this order: each stage occurs, the river carver after the
\* masks and before the erosion passes.
C13_StageOrder ==
  (ppc = "done" /\ entryPoint = "continuous") =>
    \E d, e, f, g, h, i \in DOMAIN stageLog :
      /\ d < e /\ e < f /\ f < g /\ g < h /\ h < i
      /\ stageLog[d] = "pyramid" /\ stageLog[e] = "flow" /\ stageLog[f] = "masks"
      /\ stageLog[g] = "carve" /\ stageLog[h] = "erosion" /\ stageLog[i] = "tiles"

\* C14: the erosion stage uses the caller's values: timeYears is
\* config.erosionYears and seaLevel is config.seaLevel when supplied, 2500
\* and 23 only when omitted, and the iteration budgets follow erosionYears.
C14_ErosionUsesConfig ==
  (ppc = "done" /\ entryPoint = "continuous") =>
    LET years == Coalesce(gcfg.erosionYears, DefaultErosionYears)
    IN /\ erosionRun.params.timeYears = years * Q
       /\ erosionRun.params.seaLevel = Coalesce(gcfg.seaLevel, DefaultSeaLevel) * Q
       /\ erosionRun.iterations =
            [wind |-> CeilDiv(years, 100), thermal |-> CeilDiv(years, 50),
             hydraulic |-> CeilDiv(years, 25)]

\* C17 as stated: for rows=2, cols=3, tileSize=512, overlap=32,
\* baseSize=64, steps=4 the atlas is 1440 wide and 960 high, of length
\* 1440*960, and six rectangles are returned.
ScenarioConfig(c) ==
  /\ c.rows = 2 /\ c.cols = 3 /\ c.tileSize = 512 /\ c.overlap = 32
  /\ c.baseSize = {64} /\ c.steps = {4}
C17_Atlas1440x960 ==
  (ppc = "done" /\ entryPoint = "continuous" /\ ScenarioConfig(gcfg)) =>
    /\ genResult.atlasW = 1440 /\ genResult.atlasH = 960
    /\ genResult.atlasLength = 1440 * 960
    /\ genResult.rects = 6

\* C17 amended: for that config the atlas is 3*448 = 1344 wide and
\* 2*448 = 896 high (inner = 512 - 2*32 = 448), of length 1344*896, and six
\* rectangles and six tiles are returned.
C17_Atlas1344x896 ==
  (ppc = "done" /\ entryPoint = "continuous" /\ ScenarioConfig(gcfg)) =>
    /\ genResult.innerSize = 448
    /\ genResult.atlasW = 1344 /\ genResult.atlasH = 896
    /\ genResult.atlasLength = 1344 * 896
    /\ genResult.rects = 6 /\ genResult.tiles = 6

C17_Witness ==
  /\ ppc = "done" /\ entryPoint = "continuous" /\ ScenarioConfig(gcfg)
  /\ {"tiles", "atlas", "rects"} \subseteq genResult.produced
  /\ genResult.atlasLength > 0

\* C18: in the result of generateContinuousTileGrid each array of
\* waterFeatures has the atlas dimensions: its length is
\* (cols*inner) * (rows*inner), so that a mask index and the same atlas
\* index name the same terrain cell.
C18_MasksHaveAtlasDimensions ==
  (ppc = "done" /\ entryPoint = "continuous") =>
    /\ "waterFeatures" \in genResult.produced
    /\ genResult.maskLength = (gcfg.cols * Inner(gcfg)) * (gcfg.rows * Inner(gcfg))
    /\ genResult.maskLength = genResult.atlasLength

\* C20: at every pyramid level of size s the FBM amplitude divisor is
\* 1 + (final_size - s)/128 with final_size the size of the run's last
\* level: it is >= 1 at every level, exactly 1 at the last level and never
\* zero or negative, also for pyramids that exceed 512.
C20_FbmDivisorFromFinalSize ==
  (ppc = "done" /\ entryPoint = "continuous" /\ levelLog # <<>>) =>
    LET finalSize == levelLog[Len(levelLog)].size
    IN /\ \A k \in DOMAIN levelLog :
            /\ RatEq(levelLog[k].divisor, Rat(128 + (finalSize - levelLog[k].size), 128))
            /\ levelLog[k].divisor[1] >= levelLog[k].divisor[2]
            /\ levelLog[k].divisor[1] > 0
       /\ RatEq(levelLog[Len(levelLog)].divisor, Rat(1, 1))

(***************************************************************************)
(* Further claims about applyGeologicalErosion (under SpecErosion).        *)
(***************************************************************************)

\* C26: in each wind iteration every interior cell p, taken in row-major
\* order, has exposure max(0, H(p) - M + 0.1) with M exactly the maximum of
\* the eight neighbours' current heights, also when all eight are negative;
\* p is lowered by windStrength * exposure * 0.01, the same amount is added
\* to the erosion mask, and border cells are never modified.
RECURSIVE WindSweepTrueMax(_, _, _, _)
WindSweepTrueMax(st, size, idx, windStrength) ==
  IF idx >= size * size THEN st
  ELSE LET M == SetMax({ st.data[n] : n \in Neighbors8(size, idx) })
           exposure == Max(0, st.data[idx] - M + K0_1)
           amount == Mul(Mul(windStrength, exposure), K0_01)
       IN WindSweepTrueMax(IF IsInterior(size, idx) /\ amount > 0
                           THEN [st EXCEPT !.data[idx] = @ - amount, !.mask[idx] = @ + amount]
                           ELSE st,
                           size, idx + 1, windStrength)
C26_WindExposureFromTrueMax ==
  [][WindIteration =>
       LET st == WindSweepTrueMax([data |-> hfData, mask |-> passMask], GridSize, 0,
                                  params.windStrength)
       IN /\ hfData' = st.data
          /\ passMask' = st.mask
          /\ \A i \in DOMAIN hfData : ~IsInterior(GridSize, i) => hfData'[i] = hfData[i]]_vars

\* C25: the beachMask applyGeologicalErosion returns is recomputed after
\* the last erosion pass: it equals generateBeachMask of the final heights,
\* for every ErosionParams.
C25_BeachMaskFromFinalHeights ==
  epc = "done" =>
    waterFeatures.beachMask
      = generateBeachMask(hfData, GridSize, SeaLevelUnits(params), 8 * Q)

\* C27: each thermal pass is double-buffered and mass-conserving: every
\* talus test H(p) - H(n) > 0.8 reads the heights of the start of the pass,
\* every transfer takes from p exactly what it gives to n, so each cell ends
\* at its start height minus what it sheds plus what its interior
\* neighbours shed onto it, whatever the order of the visits, and the sum
\* of all heights is unchanged.
ThermalMoved(data, q, n, temperatureCycles) ==
  IF data[q] - data[n] > talusAngle
  THEN Mul(Mul(Mul(data[q] - data[n] - talusAngle, temperatureCycles), K0_001), K0_5)
  ELSE 0
RECURSIVE SumMoved(_, _, _, _, _)
SumMoved(data, S, q, toward, temperatureCycles) ==
  IF S = {} THEN 0
  ELSE LET n == CHOOSE n \in S : TRUE
       IN (IF toward THEN ThermalMoved(data, q, n, temperatureCycles)
           ELSE ThermalMoved(data, n, q, temperatureCycles))
          + SumMoved(data, S \ {n}, q, toward, temperatureCycles)
C29_OverlapMarginsIdentical ==
  gpc = "done" =>
    /\ \A r \in 0..(cfg.rows - 1), c \in 0..(cfg.cols - 2),
          x \in 0..(2 * cfg.overlap - 1), y \in 0..(cfg.tileSize - 1) :
         TileGet(r, c, x + Inner(cfg), y) = TileGet(r, c + 1, x, y)
    /\ \A r \in 0..(cfg.rows - 2), c \in 0..(cfg.cols - 1),
          x \in 0..(cfg.tileSize - 1), y \in 0..(2 * cfg.overlap - 1) :
         TileGet(r, c, x, y + Inner(cfg)) = TileGet(r + 1, c, x, y)
    /\ \A r \in 0..(cfg.rows - 1), c \in 0..(cfg.cols - 1),
          x \in 0..(cfg.tileSize - 1), y \in 0..(cfg.tileSize - 1) :
         /\ SrcX(cfg, c) + x < ContinuousSize(cfg)
         /\ SrcY(cfg, r) + y < ContinuousSize(cfg)
         /\ TileGet(r, c, x, y)
              = continuous[(r * Inner(cfg) + y) * ContinuousSize(cfg) + c * Inner(cfg) + x]

C29_Witness ==
  /\ gpc = "done"
  /\ cfg.rows = 2 /\ cfg.cols = 2 /\ Inner(cfg) = 2
  /\ \E y \in 0..(cfg.tileSize - 1) : TileGet(0, 0, Inner(cfg), y) # TileGet(0, 0, 0, y)
  /\ \E x \in 0..(cfg.tileSize - 1) : TileGet(0, 0, x, Inner(cfg)) # TileGet(0, 0, x, 0)

(***************************************************************************)
(* Further claims about the entry points (under SpecGenerate).             *)
(***************************************************************************)

\* C21: in seam-blend mode of generateTileGrid, for every accepted overlap
\* O (O >= 1, 2O < tileSize) and every k in [0, O) the weights
\* wA = 1 - k/(O-1) and wB = 1 - wA are well defined, lie in [0, 1] and sum
\* to 1.
C21_BlendWeightsConvex ==
  (entryPoint = "legacy" /\ thrown = "none") =>
    \A j \in DOMAIN blendWeights :
      LET wA == blendWeights[j].wA
          wB == blendWeights[j].wB
      IN /\ wA[2] # 0 /\ wB[2] # 0
         /\ wA[1] * wA[2] >= 0 /\ Abs(wA[1]) <= Abs(wA[2])
         /\ wB[1] * wB[2] >= 0 /\ Abs(wB[1]) <= Abs(wB[2])
         /\ wA[1] * wB[2] + wB[1] * wA[2] = wA[2] * wB[2]

(***************************************************************************)
(* Further claims about carveRivers (under SpecHydro).                     *)
(***************************************************************************)

\* C28: the carving pass of carveRivers only erodes: no cell is higher
\* after the pass than before it, and every update moves the cell 70% of
\* the way to a target that is not below the carving cell's river level.
C28_CarvingOnlyErodes ==
  hpc = "carve" =>
    /\ \A i \in DOMAIN hIn.data : hOut.carved.data[i] <= hIn.data[i]
    /\ \A u \in hOut.carved.log :
         /\ u.target >= u.riverLevel
         /\ u.after = u.before + Mul(u.target - u.before, K0_7)

(***************************************************************************)
(* WasmTerrainGenerator: initialize() and generateContinuousTileGrid()     *)
(* called by concurrent callers.  Each async call runs to its first await  *)
(* in one step; the init() promise of each call settles on its own.        *)
(***************************************************************************)
NumCallers == 3
Callers == 1..NumCallers
WasmMethods == {"initialize", "generateContinuousTileGrid"}

WasmInit ==
  /\ initialized = FALSE
  /\ initCalls = 0
  /\ initResults = <<>>
  /\ caller = [c \in Callers |-> [method |-> "", pc |-> "idle", error |-> "none"]]
  /\ GridIdle /\ EroIdle /\ HydroIdle /\ PipeIdle

\* A caller calls initialize(), directly or through the first line of
\* generateContinuousTileGrid (line 64): if (this.initialized) return;
\* otherwise init() is invoked and awaited (lines 16-19).
WasmCall(c) ==
  /\ caller[c].pc = "idle"
  /\ \E m \in WasmMethods :
       IF initialized
       THEN /\ caller' = [caller EXCEPT ![c] = [@ EXCEPT !.method = m, !.pc = "initReturned"]]
            /\ UNCHANGED initCalls
       ELSE /\ caller' = [caller EXCEPT ![c] = [@ EXCEPT !.method = m, !.pc = "awaitInit"]]
            /\ initCalls' = initCalls + 1
  /\ UNCHANGED <<initialized, initResults, gridVars, eroVars, hydroVars, pipeVars>>

\* The awaited init() resolves: initWasm(), initialized = true (lines 20-22).
InitResolves(c) ==
  /\ caller[c].pc = "awaitInit"
  /\ initialized' = TRUE
  /\ initResults' = Append(initResults, "ok")
  /\ caller' = [caller EXCEPT ![c] = [@ EXCEPT !.pc = "initReturned"]]
  /\ UNCHANGED <<initCalls, gridVars, eroVars, hydroVars, pipeVars>>

\* The awaited init() rejects: the error is logged and rethrown (lines
\* 23-26); through await this.initialize() it rejects
\* generateContinuousTileGrid as well.
InitRejects(c) ==
  /\ caller[c].pc = "awaitInit"
  /\ initResults' = Append(initResults, "error")
  /\ caller' = [caller EXCEPT ![c] = [@ EXCEPT !.pc = "threw", !.error = "initError"]]
  /\ UNCHANGED <<initialized, initCalls, gridVars, eroVars, hydroVars, pipeVars>>

\* generateContinuousTileGrid goes on after await this.initialize()
\* (lines 66 and after).
GenerateContinues(c) ==
  /\ caller[c].pc = "initReturned"
  /\ caller[c].method = "generateContinuousTileGrid"
  /\ caller' = [caller EXCEPT ![c] = [@ EXCEPT !.pc = "generating"]]
  /\ UNCHANGED <<initialized, initCalls, initResults, gridVars, eroVars, hydroVars, pipeVars>>

WasmNext ==
  \E c \in Callers :
    WasmCall(c) \/ InitResolves(c) \/ InitRejects(c) \/ GenerateContinues(c)

SpecWasm == WasmInit /\ [][WasmNext]_vars

\* C30: across any interleaving of concurrent initialize() and
\* generateContinuousTileGrid() calls the WASM init() is invoked at most
\* once while it succeeds; if init fails, initialized stays false and the
\* error is rethrown to the caller.
C30_InitAtMostOnce ==
  /\ (\A k \in DOMAIN initResults : initResults[k] = "ok") => initCalls <= 1
  /\ (\A k \in DOMAIN initResults : initResults[k] = "error") => ~initialized
  /\ \A c \in DOMAIN caller :
       /\ caller[c].pc = "threw" => caller[c].error = "initError"
       /\ caller[c].pc \in {"initReturned", "generating"} => initialized

====
